---- MODULE Spec2Model ----
(***************************************************************************)
(* A model of go.git-scm: the in-memory repository (repository/mem), the   *)
(* pkt-line framing (pktline), and the protocol tasks ReceivePack and      *)
(* UploadPack (protocol).  Each subsystem has its own specification over   *)
(* its own group of variables; a specification leaves the other groups     *)
(* unchanged.                                                              *)
(***************************************************************************)
EXTENDS Integers, Sequences, FiniteSets, TLC

VARIABLES
    \* ---- repository/mem: type repo ----
    objects,      \* repo.objects: the set of Ids that have an object stored
    refs,         \* repo.refs: a partial map refname -> Id (a TLA+ function)
    HEAD,         \* repo.HEAD: the name of the ref HEAD points to
    refsLock,     \* repo.refsLock: [writer, readers]
    objectsLock,  \* repo.objectsLock: [writer, readers]
    pc,           \* where each goroutine is inside its current call
    call,         \* the arguments of each goroutine's current call
    ret,          \* the result of each goroutine's call once decided
    before,       \* history: repo.refs as it was when the call took refsLock
    last,         \* history: per refname, the latest successful UpdateRef
    tick,         \* history: per refname, flips at each successful UpdateRef
    \* ---- pktline: a Writer, the byte stream, a Reader ----
    wire,         \* the bytes of the underlying stream not yet read
    phase,        \* "write": the stream is being produced; "read": it is closed
    atEOF,        \* Reader.atEOF
    sent,         \* history: what was written, one entry per record
    rcvd,         \* history: what each ReadLine call returned
    wlast,        \* history: the latest WriteLine call and its result
    \* ---- protocol.ReceivePack: one entry per running task ----
    rpc,          \* where each task is inside ReceivePack
    rin,          \* what the task's client sends: commands, capabilities, pack
    rsnap,        \* history: repo.refs and repo.objects when the task began,
                  \* and the tasks that were running then and still are
    rk,           \* the loop index (objects of the pack, then commands)
    runpack,      \* err of unpack(repo, r)
    rdr,          \* pfr, the packfile.Reader of unpack: n, the position of
                  \* its digestReader, ofs, and baseID of the last ReadObject
    rout,         \* the pkt-lines the task has written to w
    rret,         \* the value ReceivePack returned
    rcalls,       \* the number of ReceivePack calls made so far
    \* ---- protocol.UploadPack: one call ----
    upc,          \* where the call is inside UploadPack
    uin,          \* the request: the client's stream and its capabilities
    upos,         \* the position of pktr in the stream
    uwant,        \* want: the wanted Ids no common object was found for
    ustart,       \* start: the wanted Ids in the order received
    uend,         \* end: the common objects in the order found
    uhave,        \* have: the keys of the map readHaveLines returned
    uerr,         \* err: the error readHaveLines (or ReadLine) returned
    umsg,         \* msg: the line ReadLine returned to negotiate
    uout,         \* the response written to w, one entry per line
    uret,         \* the value UploadPack returned
    useen,        \* history: the Ids of the have lines read so far
    \* ---- protocol.AdvertiseRefs: one call at a time ----
    adv,          \* where the call is, what ListRefs and GetRef(HEAD)
                  \* returned to it, and the lines it has written to w
    \* ---- packfile: the base128 number codecs ----
    b128,         \* a number, the bytes WriteLE and WriteMBE made of it,
                  \* and what ReadLE and ReadMBE returned for those bytes
    \* ---- object: Marshal and Unmarshal ----
    codec,        \* an object, the data and Id Marshal made of it, what
                  \* Unmarshal returned for the data, and the Id of that
    \* ---- packfile: a Writer, the stream, a Reader over it ----
    pf,           \* the objects to write, the Writer, the records and the
                  \* footer of the stream, the Reader and what it returned
    \* ---- packfile: a Reader that is read on after an error ----
    crd,          \* the stream, the Reader, the repository it unpacks to,
                  \* and what the ReadObject calls returned
    \* ---- packfile: applyDelta on the bytes of a delta ----
    dlt,          \* a base, a delta, and what applyDelta returned
    \* ---- repository/appengine: refs in the datastore and memcache ----
    gae,          \* the datastore entity and the memcache item of one ref,
                  \* and the GetRef and UpdateRef calls in progress
    \* ---- repository/mem: the three locks of repo, call by call ----
    lk            \* objectsLock, refsLock and HEADLock, and for each
                  \* goroutine the method it is in and how far it is

memVars == <<objects, refs, HEAD, refsLock, objectsLock, pc, call, ret,
             before, last, tick>>

pktVars == <<wire, phase, atEOF, sent, rcvd, wlast>>

recvVars == <<rpc, rin, rsnap, rk, runpack, rdr, rout, rret, rcalls>>

upVars == <<upc, uin, upos, uwant, ustart, uend, uhave, uerr, umsg, uout,
            uret, useen>>

advVars == <<adv>>

libVars == <<b128, codec, pf>>

extVars == <<crd, dlt, gae, lk>>

vars == <<memVars, pktVars, recvVars, upVars, advVars, libVars, extVars>>

\* What the actions of one group leave unchanged: the other groups.
\* ReceivePack works on the repository, so its group shares refs and
\* objects with the repository's.
\* The calls of the repository other than SetHEAD leave HEAD unchanged too.
memOthers == <<HEAD, pktVars, recvVars, upVars, advVars, libVars, extVars>>
headOthers == <<objects, refs, refsLock, objectsLock, pc, call, ret, before,
                last, tick, pktVars, recvVars, upVars, advVars, libVars, extVars>>
pktOthers == <<memVars, recvVars, upVars, advVars, libVars, extVars>>
recvOthers == <<HEAD, refsLock, objectsLock, pc, call, ret, before, last,
                tick, pktVars, upVars, advVars, libVars, extVars>>
upOthers == <<memVars, pktVars, recvVars, advVars, libVars, extVars>>
advOthers == <<memVars, pktVars, recvVars, upVars, libVars, extVars>>
libOthers == <<memVars, pktVars, recvVars, upVars, advVars, extVars>>
extOthers == <<memVars, pktVars, recvVars, upVars, advVars, libVars>>

(***************************************************************************)
(* Bounds and program constants                                            *)
(***************************************************************************)
MaxId == 2           \* object Ids are 1..MaxId
MaxItems == 3        \* records written to a pkt-line stream
ZeroID == 0          \* object.ZeroID: "no object"
Ids == 1..MaxId
IdsOrZero == Ids \cup {ZeroID}
Procs == {"p1", "p2"}
None == "none"

(***************************************************************************)
(* Refnames are sequences of one-character strings, so that IsValidRef     *)
(* can be computed on them the way the code computes it on Go strings.     *)
(***************************************************************************)
RefX == <<"r", "e", "f", "s", "/", "x">>
RefY == <<"r", "e", "f", "s", "/", "y">>
RefLock == <<"r", "e", "f", "s", "/", "x", ".", "l", "o", "c", "k">>
RefHEAD == <<"H", "E", "A", "D">>
RefNames == {RefX, RefY, RefLock, RefHEAD}
\* "refs/heads/master"
RefMaster == <<"r", "e", "f", "s", "/", "h", "e", "a", "d", "s", "/",
               "m", "a", "s", "t", "e", "r">>

HasPrefix(s, t) == Len(s) >= Len(t) /\ SubSeq(s, 1, Len(t)) = t
HasSuffix(s, t) ==
    Len(s) >= Len(t) /\ SubSeq(s, Len(s) - Len(t) + 1, Len(s)) = t
Contains(s, t) ==
    \E i \in 1..(Len(s) - Len(t) + 1) : SubSeq(s, i, i + Len(t) - 1) = t

\* The runes the IndexFunc callback of IsValidRef rejects, among the
\* characters refnames of the model are made of (r < 0x20 is "\t", "\n").
IsBadRune(c) == c \in {"\t", "\n", " ", "~", "^", ":", "?", "["}

IsValidRef(name) ==
    /\ HasPrefix(name, <<"r", "e", "f", "s", "/">>)
    /\ ~Contains(name, <<"/", ".">>)
    /\ ~Contains(name, <<".", ".">>)
    /\ \A i \in 1..Len(name) : ~IsBadRune(name[i])
    /\ ~HasSuffix(name, <<"/">>)
    /\ ~Contains(name, <<"/", "/">>)
    /\ ~HasSuffix(name, <<".">>)
    /\ ~HasSuffix(name, <<".", "l", "o", "c", "k">>)
    /\ ~Contains(name, <<"@", "{">>)
    /\ ~Contains(name, <<"\\">>)

(***************************************************************************)
(* repository/mem: the repo type and its methods                           *)
(***************************************************************************)
ErrInvalidRef == "ErrInvalidRef"
ErrRefMismatch == "ErrRefMismatch"
ErrRefExist == "ErrRefExist"
ErrRefNotExist == "ErrRefNotExist"
ErrObjectNotExist == "ErrObjectNotExist"
Nil == "nil"

\* r.refs[name]: the zero value of object.ID when the key is missing
Lookup(m, name) == IF name \in DOMAIN m THEN m[name] ELSE ZeroID

\* delete(r.refs, name)
MapDelete(m, name) == [n \in (DOMAIN m) \ {name} |-> m[n]]

\* r.refs[name] = id
MapSet(m, name, id) ==
    [n \in (DOMAIN m) \cup {name} |-> IF n = name THEN id ELSE m[n]]

FreeLock == [writer |-> None, readers |-> {}]

\* Mutant: a Lock() that excludes nobody
CanLock_NoExclusion(l) == TRUE

\* sync.RWMutex: Lock() returns once no reader and no writer holds it
CanLock(l) == l.writer = None /\ l.readers = {}
\* sync.RWMutex: RLock() returns once no writer holds it
CanRLock(l) == l.writer = None

\* Mutant: a ref holding another Id than oldID passes the comparison
CompareOld_IgnoreMismatch(id, oldID) ==
    IF id # oldID /\ ZeroID = id THEN ErrRefNotExist
    ELSE IF id # oldID /\ ZeroID = oldID THEN ErrRefExist
    ELSE Nil

\* Mutant: oldID = ZeroID is taken as "whatever the ref holds"
CompareOld_CreateOverwrites(id, oldID) ==
    IF id # oldID /\ ZeroID # oldID
    THEN IF ZeroID = id THEN ErrRefNotExist ELSE ErrRefMismatch
    ELSE Nil

\* Mutant: a missing ref passes the comparison with any oldID
CompareOld_MissingPasses(id, oldID) ==
    IF id # oldID /\ ZeroID # id
    THEN IF ZeroID = oldID THEN ErrRefExist ELSE ErrRefMismatch
    ELSE Nil

\* The if/switch of UpdateRef that compares r.refs[name] with oldID:
\* the error it returns, or Nil when the comparison passes.
CompareOld(id, oldID) ==
    IF id # oldID
    THEN IF ZeroID = id THEN ErrRefNotExist
         ELSE IF ZeroID = oldID THEN ErrRefExist
         ELSE ErrRefMismatch
    ELSE Nil

\* Mutant: storing an object drops the objects stored before
PutObject_Replace(objs, put) == put

\* Mutant: storing an object that is stored already removes it
PutObject_Toggle(objs, put) == (objs \ put) \cup (put \ objs)

\* r.objects[id] = obj, for the objects whose Ids are in put, on the
\* object store objs
PutObject(objs, put) == objs \cup put

NoCall == [op |-> "none"]
NoRet == [err |-> "pending", id |-> ZeroID]
NoWin == [won |-> FALSE, oldID |-> ZeroID, newID |-> ZeroID]

MemInit ==
    /\ objects = {}
    /\ refs = <<>>
    /\ HEAD = RefMaster
    /\ refsLock = FreeLock
    /\ objectsLock = FreeLock
    /\ pc = [p \in Procs |-> "idle"]
    /\ call = [p \in Procs |-> NoCall]
    /\ ret = [p \in Procs |-> NoRet]
    /\ before = [p \in Procs |-> <<>>]
    /\ last = [n \in RefNames |-> NoWin]
    /\ tick = [n \in RefNames |-> FALSE]

\* A goroutine calls r.UpdateRef(name, oldID, newID); an invalid refname
\* returns ErrInvalidRef before any lock is taken.
CallUpdateRef(p, name, oldID, newID) ==
    /\ UNCHANGED memOthers
    /\ pc[p] = "idle"
    /\ call' = [call EXCEPT ![p] = [op |-> "UpdateRef", name |-> name,
                                    oldID |-> oldID, newID |-> newID]]
    /\ IF ~IsValidRef(name)
       THEN /\ pc' = [pc EXCEPT ![p] = "done"]
            /\ ret' = [ret EXCEPT ![p] = [err |-> ErrInvalidRef, id |-> ZeroID]]
       ELSE /\ pc' = [pc EXCEPT ![p] = "ur_lock"]
            /\ ret' = [ret EXCEPT ![p] = NoRet]
    /\ UNCHANGED <<objects, refs, refsLock, objectsLock, before, last, tick>>

\* r.refsLock.Lock()
URLock(p) ==
    /\ UNCHANGED memOthers
    /\ pc[p] = "ur_lock"
    /\ CanLock(refsLock)
    /\ refsLock' = [refsLock EXCEPT !.writer = p]
    /\ before' = [before EXCEPT ![p] = refs]
    /\ pc' = [pc EXCEPT ![p] = "ur_cmp"]
    /\ UNCHANGED <<objects, refs, objectsLock, call, ret, last, tick>>

\* One successful update, as the history keeps it
Won(c) == [won |-> TRUE, oldID |-> c.oldID, newID |-> c.newID]

\* id := r.refs[name]; the comparison with oldID; and, for newID = ZeroID,
\* the delete
URCompare(p) ==
    /\ UNCHANGED memOthers
    /\ pc[p] = "ur_cmp"
    /\ LET c == call[p]
           err == CompareOld(Lookup(refs, c.name), c.oldID)
       IN IF err # Nil
          THEN /\ ret' = [ret EXCEPT ![p] = [err |-> err, id |-> ZeroID]]
               /\ pc' = [pc EXCEPT ![p] = "ur_unlock"]
               /\ UNCHANGED <<refs, last, tick>>
          ELSE IF c.newID = ZeroID
          THEN /\ refs' = MapDelete(refs, c.name)
               /\ ret' = [ret EXCEPT ![p] = [err |-> Nil, id |-> ZeroID]]
               /\ last' = [last EXCEPT ![c.name] = Won(c)]
               /\ tick' = [tick EXCEPT ![c.name] = ~@]
               /\ pc' = [pc EXCEPT ![p] = "ur_unlock"]
          ELSE /\ pc' = [pc EXCEPT ![p] = "ur_getobj"]
               /\ UNCHANGED <<refs, ret, last, tick>>
    /\ UNCHANGED <<objects, refsLock, objectsLock, call, before>>

\* r.GetObject(newID), called with refsLock held: RLock, lookup, RUnlock
URGetObject(p) ==
    /\ UNCHANGED memOthers
    /\ pc[p] = "ur_getobj"
    /\ CanRLock(objectsLock)
    /\ IF call[p].newID \in objects
       THEN /\ pc' = [pc EXCEPT ![p] = "ur_set"]
            /\ UNCHANGED ret
       ELSE /\ ret' = [ret EXCEPT ![p] = [err |-> ErrObjectNotExist,
                                          id |-> ZeroID]]
            /\ pc' = [pc EXCEPT ![p] = "ur_unlock"]
    /\ UNCHANGED <<objects, refs, refsLock, objectsLock, call, before, last,
                   tick>>

\* r.refs[name] = newID
URSet(p) ==
    /\ UNCHANGED memOthers
    /\ pc[p] = "ur_set"
    /\ LET c == call[p]
       IN /\ refs' = MapSet(refs, c.name, c.newID)
          /\ last' = [last EXCEPT ![c.name] = Won(c)]
          /\ tick' = [tick EXCEPT ![c.name] = ~@]
    /\ ret' = [ret EXCEPT ![p] = [err |-> Nil, id |-> ZeroID]]
    /\ pc' = [pc EXCEPT ![p] = "ur_unlock"]
    /\ UNCHANGED <<objects, refsLock, objectsLock, call, before>>

\* defer r.refsLock.Unlock()
URUnlock(p) ==
    /\ UNCHANGED memOthers
    /\ pc[p] = "ur_unlock"
    /\ refsLock' = [refsLock EXCEPT !.writer = None]
    /\ pc' = [pc EXCEPT ![p] = "done"]
    /\ UNCHANGED <<objects, refs, objectsLock, call, ret, before, last, tick>>

\* A goroutine calls r.GetRef(name)
CallGetRef(p, name) ==
    /\ UNCHANGED memOthers
    /\ pc[p] = "idle"
    /\ call' = [call EXCEPT ![p] = [op |-> "GetRef", name |-> name,
                                    oldID |-> ZeroID, newID |-> ZeroID]]
    /\ IF ~IsValidRef(name)
       THEN /\ pc' = [pc EXCEPT ![p] = "done"]
            /\ ret' = [ret EXCEPT ![p] = [err |-> ErrInvalidRef, id |-> ZeroID]]
       ELSE /\ pc' = [pc EXCEPT ![p] = "gr_rlock"]
            /\ ret' = [ret EXCEPT ![p] = NoRet]
    /\ UNCHANGED <<objects, refs, refsLock, objectsLock, before, last, tick>>

\* r.refsLock.RLock()
GRRLock(p) ==
    /\ UNCHANGED memOthers
    /\ pc[p] = "gr_rlock"
    /\ CanRLock(refsLock)
    /\ refsLock' = [refsLock EXCEPT !.readers = @ \cup {p}]
    /\ pc' = [pc EXCEPT ![p] = "gr_read"]
    /\ UNCHANGED <<objects, refs, objectsLock, call, ret, before, last, tick>>

\* id, ok := r.refs[name]
GRRead(p) ==
    /\ UNCHANGED memOthers
    /\ pc[p] = "gr_read"
    /\ LET name == call[p].name
       IN ret' = [ret EXCEPT ![p] =
                    IF name \in DOMAIN refs
                    THEN [err |-> Nil, id |-> refs[name]]
                    ELSE [err |-> ErrRefNotExist, id |-> ZeroID]]
    /\ pc' = [pc EXCEPT ![p] = "gr_runlock"]
    /\ UNCHANGED <<objects, refs, refsLock, objectsLock, call, before, last,
                   tick>>

\* defer r.refsLock.RUnlock()
GRRUnlock(p) ==
    /\ UNCHANGED memOthers
    /\ pc[p] = "gr_runlock"
    /\ refsLock' = [refsLock EXCEPT !.readers = @ \ {p}]
    /\ pc' = [pc EXCEPT ![p] = "done"]
    /\ UNCHANGED <<objects, refs, objectsLock, call, ret, before, last, tick>>

\* A goroutine calls r.PutObject(obj), obj hashing to id: object.Hash,
\* then objectsLock.Lock()
CallPutObject(p, id) ==
    /\ UNCHANGED memOthers
    /\ pc[p] = "idle"
    /\ call' = [call EXCEPT ![p] = [op |-> "PutObject", name |-> <<>>,
                                    oldID |-> ZeroID, newID |-> id]]
    /\ ret' = [ret EXCEPT ![p] = NoRet]
    /\ pc' = [pc EXCEPT ![p] = "po_lock"]
    /\ UNCHANGED <<objects, refs, refsLock, objectsLock, before, last, tick>>

\* r.objectsLock.Lock(); r.objects[id] = obj
POStore(p) ==
    /\ UNCHANGED memOthers
    /\ pc[p] = "po_lock"
    /\ CanLock(objectsLock)
    /\ objectsLock' = [objectsLock EXCEPT !.writer = p]
    /\ objects' = PutObject(objects, {call[p].newID})
    /\ ret' = [ret EXCEPT ![p] = [err |-> Nil, id |-> call[p].newID]]
    /\ pc' = [pc EXCEPT ![p] = "po_unlock"]
    /\ UNCHANGED <<refs, refsLock, call, before, last, tick>>

\* defer r.objectsLock.Unlock()
POUnlock(p) ==
    /\ UNCHANGED memOthers
    /\ pc[p] = "po_unlock"
    /\ objectsLock' = [objectsLock EXCEPT !.writer = None]
    /\ pc' = [pc EXCEPT ![p] = "done"]
    /\ UNCHANGED <<objects, refs, refsLock, call, ret, before, last, tick>>

\* The call returns to its caller
Return(p) ==
    /\ UNCHANGED memOthers
    /\ pc[p] = "done"
    /\ pc' = [pc EXCEPT ![p] = "idle"]
    /\ call' = [call EXCEPT ![p] = NoCall]
    /\ ret' = [ret EXCEPT ![p] = NoRet]
    /\ before' = [before EXCEPT ![p] = <<>>]
    /\ UNCHANGED <<objects, refs, refsLock, objectsLock, last, tick>>

\* r.SetHEAD(name): HEADLock.Lock(), r.HEAD = name, Unlock; the name is
\* not validated
SetHEAD(name) ==
    /\ UNCHANGED headOthers
    /\ HEAD' = name

MemNext(P, N) ==
    \E p \in P :
        \/ \E name \in N, oldID \in IdsOrZero, newID \in IdsOrZero :
               CallUpdateRef(p, name, oldID, newID)
        \/ URLock(p)
        \/ URCompare(p)
        \/ URGetObject(p)
        \/ URSet(p)
        \/ URUnlock(p)
        \/ \E name \in N : CallGetRef(p, name)
        \/ GRRLock(p)
        \/ GRRead(p)
        \/ GRRUnlock(p)
        \/ \E id \in Ids : CallPutObject(p, id)
        \/ POStore(p)
        \/ POUnlock(p)
        \/ Return(p)

(***************************************************************************)
(* pktline: byte strings                                                   *)
(*                                                                         *)
(* A byte string is kept run-length encoded, as a sequence of runs         *)
(* [c, n] (the byte c, n times) with no empty run and no two adjacent runs *)
(* of the same byte, so that payloads of MaxPayloadLen bytes are single    *)
(* values and equal byte strings are equal values.                         *)
(***************************************************************************)
MaxPayloadLen == 65520

Run(c, n) == [c |-> c, n |-> n]

RECURSIVE Norm(_)
Norm(w) ==
    IF w = <<>> THEN <<>>
    ELSE IF w[1].n = 0 THEN Norm(Tail(w))
    ELSE LET r == Norm(Tail(w))
         IN IF r # <<>> /\ r[1].c = w[1].c
            THEN <<Run(w[1].c, w[1].n + r[1].n)>> \o Tail(r)
            ELSE <<w[1]>> \o r

\* a ++ b
Cat(a, b) == Norm(a \o b)

\* len(s)
RECURSIVE BLen(_)
BLen(w) == IF w = <<>> THEN 0 ELSE w[1].n + BLen(Tail(w))

\* The first k bytes of w (all of w when it is shorter): what
\* io.ReadFull(r, p) with len(p) = k stores in p
RECURSIVE Take(_, _)
Take(w, k) ==
    IF k <= 0 \/ w = <<>> THEN <<>>
    ELSE IF w[1].n <= k THEN <<w[1]>> \o Take(Tail(w), k - w[1].n)
    ELSE <<Run(w[1].c, k)>>

\* What io.ReadFull(r, p) with len(p) = k leaves in the stream
RECURSIVE Drop(_, _)
Drop(w, k) ==
    IF k <= 0 \/ w = <<>> THEN w
    ELSE IF w[1].n <= k THEN Drop(Tail(w), k - w[1].n)
    ELSE <<Run(w[1].c, w[1].n - k)>> \o Tail(w)

\* The bytes of a short byte string, one per element
RECURSIVE Expand(_)
Expand(w) ==
    IF w = <<>> THEN <<>>
    ELSE IF w[1].n = 1 THEN <<w[1].c>> \o Expand(Tail(w))
    ELSE <<w[1].c>> \o Expand(<<Run(w[1].c, w[1].n - 1)>> \o Tail(w))

\* The byte string of a sequence of bytes
Bytes(cs) == Norm([i \in 1..Len(cs) |-> Run(cs[i], 1)])

(***************************************************************************)
(* pktline: readLineLen, writeLineLen, Reader, Writer                      *)
(***************************************************************************)
hexDigits == <<"0", "1", "2", "3", "4", "5", "6", "7", "8", "9",
               "a", "b", "c", "d", "e", "f">>
upperHex == <<"A", "B", "C", "D", "E", "F">>

IndexOf(seq, c) == CHOOSE i \in 1..Len(seq) : seq[i] = c
InSeq(seq, c) == \E i \in 1..Len(seq) : seq[i] = c

\* The value the switch of readLineLen ORs into x for the byte c, before
\* the shift: a byte that is no hex digit matches no case and adds nothing
HexVal(c) ==
    IF InSeq(upperHex, c) THEN IndexOf(upperHex, c) - 1 + 10
    ELSE IF InSeq(hexDigits, c) THEN IndexOf(hexDigits, c) - 1
    ELSE 0

\* readLineLen, once its four bytes p are read: the nibbles are ORed into
\* disjoint places of x, which is the sum below; the result is x - 4
readLineLen(p) ==
    HexVal(p[1]) * 4096 + HexVal(p[2]) * 256 + HexVal(p[3]) * 16 + HexVal(p[4])
        - 4

\* Mutant: the four bytes of the length itself are not added to x
writeLineLen_NoSelfLen(x) ==
    Bytes(<<hexDigits[((x \div 4096) % 16) + 1],
            hexDigits[((x \div 256) % 16) + 1],
            hexDigits[((x \div 16) % 16) + 1],
            hexDigits[(x % 16) + 1]>>)

\* The four bytes writeLineLen writes for x
writeLineLen(x) ==
    LET y == x + 4
    IN Bytes(<<hexDigits[((y \div 4096) % 16) + 1],
               hexDigits[((y \div 256) % 16) + 1],
               hexDigits[((y \div 16) % 16) + 1],
               hexDigits[(y % 16) + 1]>>)

EOF == "io.EOF"
ErrUnexpectedEOF == "io.ErrUnexpectedEOF"
ErrTooLong == "ErrTooLong"

\* The payloads the model writes: "", "x", "0000" (a payload that looks
\* like a flush-pkt), "0x", and payloads of MaxPayloadLen - 1,
\* MaxPayloadLen and MaxPayloadLen + 1 bytes
Payloads ==
    {<<>>, <<Run("x", 1)>>, <<Run("0", 4)>>, <<Run("0", 1), Run("x", 1)>>,
     <<Run("x", MaxPayloadLen - 1)>>, <<Run("x", MaxPayloadLen)>>,
     <<Run("x", MaxPayloadLen + 1)>>}

\* Length prefixes a peer that is not this Writer may send
RawPrefixes ==
    {<<"0", "0", "0", "1">>, <<"0", "0", "0", "3">>, <<"0", "0", "0", "g">>,
     <<"f", "f", "f", "5">>, <<"0", "0", "0", "5">>, <<"0", "0", "0">>}

PktInit ==
    /\ wire = <<>>
    /\ phase = "write"
    /\ atEOF = FALSE
    /\ sent = <<>>
    /\ rcvd = <<>>
    /\ wlast = [len |-> -1, err |-> Nil, wrote |-> 0]

\* Writer.WriteLine(s)
WriteLine(s) ==
    /\ UNCHANGED pktOthers
    /\ phase = "write"
    /\ Len(sent) < MaxItems
    /\ IF BLen(s) > MaxPayloadLen
       THEN /\ wlast' = [len |-> BLen(s), err |-> ErrTooLong, wrote |-> 0]
            /\ UNCHANGED <<wire, sent>>
       ELSE /\ wire' = Cat(Cat(wire, writeLineLen(BLen(s))), s)
            /\ sent' = Append(sent, [k |-> "line", s |-> s])
            /\ wlast' = [len |-> BLen(s), err |-> Nil,
                         wrote |-> BLen(wire') - BLen(wire)]
    /\ UNCHANGED <<phase, atEOF, rcvd>>

\* Writer.Flush()
Flush ==
    /\ UNCHANGED pktOthers
    /\ phase = "write"
    /\ Len(sent) < MaxItems
    /\ wire' = Cat(wire, Bytes(<<"0", "0", "0", "0">>))
    /\ sent' = Append(sent, [k |-> "flush", s |-> <<>>])
    /\ UNCHANGED <<phase, atEOF, rcvd, wlast>>

\* A peer other than this Writer puts a length prefix of its own choice,
\* and one byte of payload, on the stream
PeerWrite(hdr) ==
    /\ UNCHANGED pktOthers
    /\ phase = "write"
    /\ Len(sent) < MaxItems
    /\ wire' = Cat(Cat(wire, Bytes(hdr)), <<Run("x", 1)>>)
    /\ sent' = Append(sent, [k |-> "raw", s |-> Bytes(hdr)])
    /\ UNCHANGED <<phase, atEOF, rcvd, wlast>>

\* The writing end is closed: the stream ends after what was written
CloseStream ==
    /\ UNCHANGED pktOthers
    /\ phase = "write"
    /\ phase' = "read"
    /\ UNCHANGED <<wire, atEOF, sent, rcvd, wlast>>

\* What Reader.ReadLine returns on the stream w, and what it leaves:
\* s and err are the returned values, flush tells that the flush-pkt
\* branch was taken, hdr is the length prefix as read.
ReadLineOn(w) ==
    LET p == Take(w, 4)
        rest == Drop(w, 4)
    IN IF BLen(p) = 0
       THEN [s |-> <<>>, err |-> EOF, flush |-> FALSE, hdr |-> p, rest |-> rest]
       ELSE IF BLen(p) < 4
       THEN [s |-> <<>>, err |-> ErrUnexpectedEOF, flush |-> FALSE, hdr |-> p,
             rest |-> rest]
       ELSE LET n == readLineLen(Expand(p))
                body == Take(rest, n)
            IN IF n < 0
               THEN [s |-> <<>>, err |-> EOF, flush |-> TRUE, hdr |-> p,
                     rest |-> rest]
               ELSE [s |-> body,
                     err |-> IF BLen(body) = n THEN Nil
                             ELSE IF BLen(body) = 0 THEN EOF
                             ELSE ErrUnexpectedEOF,
                     flush |-> FALSE, hdr |-> p, rest |-> Drop(rest, n)]

\* Reader.ReadLine()
ReadLine ==
    /\ UNCHANGED pktOthers
    /\ phase = "read"
    /\ Len(rcvd) <= Len(sent)
    /\ LET r == ReadLineOn(wire)
       IN /\ wire' = r.rest
          /\ atEOF' = IF r.flush THEN TRUE ELSE atEOF
          /\ rcvd' = Append(rcvd, [s |-> r.s, err |-> r.err, flush |-> r.flush,
                                   hdr |-> r.hdr, parked |-> atEOF,
                                   used |-> BLen(wire) - BLen(r.rest)])
    /\ UNCHANGED <<phase, sent, wlast>>

\* Reader.Next()
ReaderNext ==
    /\ UNCHANGED pktOthers
    /\ phase = "read"
    /\ atEOF
    /\ atEOF' = FALSE
    /\ UNCHANGED <<wire, phase, sent, rcvd, wlast>>

PktNext ==
    \/ \E s \in Payloads : WriteLine(s)
    \/ Flush
    \/ \E hdr \in RawPrefixes : PeerWrite(hdr)
    \/ CloseStream
    \/ ReadLine
    \/ ReaderNext

(***************************************************************************)
(* protocol.ReceivePack, with repository.UpdateRef                         *)
(*                                                                         *)
(* A task is one call of ReceivePack(repo, w, r).  What its client sends   *)
(* is fixed when the task begins: the ref update commands, the             *)
(* capabilities of the first command, and the packfile: its header, its    *)
(* object records and its footer.  An object is its Id, so a record is     *)
(* given by its kind, its length in the stream, the Id of the object it    *)
(* holds and, for a delta, the reference to its base.  The task's calls    *)
(* on the repository are separate steps, so that the steps of two tasks    *)
(* interleave.                                                             *)
(***************************************************************************)
MaxPushId == 3       \* object Ids a push may name are 1..MaxPushId
MaxPushes == 3       \* ReceivePack calls in one behaviour
MaxCmds == 2         \* ref update commands in one push
PushIds == 1..MaxPushId
PushIdsOrZero == PushIds \cup {ZeroID}
Tasks == {"t1", "t2"}

\* protocol.Capabilities
Capabilities ==
    {"delete-refs", "multi_ack_detailed", "no-done", "ofs-delta",
     "report-status"}

diff_Nothing(a, b) == {}

\* caps.diff(Capabilities)
diff(a, b) == a \ b

sub_Nothing(c, d) == {}

\* c.sub(d): the capabilities in c that are not in d
sub(c, d) == c \ d

ErrNotExist == "repository: item does not exist"
ErrOldMismatch == "old-id mismatch"
ErrNewMissing == "new-id refers to a nonexistent object"
ErrCaps == "unrecognized capabilities"
ErrHeader == "packfile: invalid header"
ErrChecksum == "packfile: invalid checksum"
ErrVersion == "packfile: unsupported version"
ErrBadOffset ==
    "packfile: delta base offset does not point at an object boundary"
ErrZlib == "zlib: invalid header"
ErrType == "bad Git type code: 0x7"

HdrLen == 12         \* the bytes of the header struct
SumLen == 20         \* sha1.Size

\* The records of a packfile: a whole object, an ofs-delta, a ref-delta,
\* a record whose body does not inflate, and a ref-delta whose body
\* inflates and makes applyDelta return the error apply
PObj(id, len) ==
    [kind |-> "obj", len |-> len, id |-> id, negOfs |-> 0, base |-> ZeroID,
     apply |-> Nil]
POfs(id, len, negOfs) ==
    [kind |-> "ofs", len |-> len, id |-> id, negOfs |-> negOfs,
     base |-> ZeroID, apply |-> Nil]
PRef(id, len, base) ==
    [kind |-> "ref", len |-> len, id |-> id, negOfs |-> 0, base |-> base,
     apply |-> Nil]
PBad(len) ==
    [kind |-> "bad", len |-> len, id |-> ZeroID, negOfs |-> 0,
     base |-> ZeroID, apply |-> Nil]
PDelta(id, len, base, apply) ==
    [kind |-> "ref", len |-> len, id |-> id, negOfs |-> 0, base |-> base,
     apply |-> apply]

\* A packfile: the signature and version of its header, the number of
\* objects the header declares, the records, and the footer: "ok" when
\* it is the SHA-1 of the bytes before it, "bad" when it is not, "cut"
\* when the stream ends before it
Pack(sig, version, n, recs, sum) ==
    [sig |-> sig, version |-> version, n |-> n, recs |-> recs, sum |-> sum]
GoodPack(recs) == Pack("PACK", 2, Len(recs), recs, "ok")
NoPack == Pack("", 0, 0, <<>>, "cut")

Cmd(name, oldID, newID) == [name |-> name, oldID |-> oldID, newID |-> newID]
NoInput == [cmds |-> <<>>, caps |-> {}, pack |-> NoPack]
NoSnap == [refs |-> <<>>, objects |-> {}, with |-> {}]
NoReader == [n |-> 0, pos |-> 0, ofs |-> <<>>, baseID |-> ZeroID]

RecvInit ==
    /\ rpc = [t \in Tasks |-> "idle"]
    /\ rin = [t \in Tasks |-> NoInput]
    /\ rsnap = [t \in Tasks |-> NoSnap]
    /\ rk = [t \in Tasks |-> 0]
    /\ runpack = [t \in Tasks |-> Nil]
    /\ rdr = [t \in Tasks |-> NoReader]
    /\ rout = [t \in Tasks |-> <<>>]
    /\ rret = [t \in Tasks |-> "pending"]
    /\ rcalls = 0

Emit_Always(t, line) == Append(rout[t], line)

\* fmtLprintf(pktw, ...): w is ioutil.Discard unless report-status is set
Emit(t, line) ==
    IF "report-status" \in rin[t].caps THEN Append(rout[t], line) ELSE rout[t]

\* ReceivePack is called: pktr := pktline.NewReader(r)
RecvStart(t, in) ==
    /\ UNCHANGED recvOthers
    /\ rpc[t] \in {"idle", "done"}
    /\ rcalls < MaxPushes
    /\ rcalls' = rcalls + 1
    /\ rpc' = [rpc EXCEPT ![t] = "parse"]
    /\ rin' = [rin EXCEPT ![t] = in]
    /\ rsnap' = [u \in Tasks |->
                   IF u = t
                   THEN [refs |-> refs, objects |-> objects,
                         with |-> {v \in Tasks \ {t} :
                                     rpc[v] \notin {"idle", "done"}}]
                   ELSE [rsnap[u] EXCEPT !.with = @ \ {t}]]
    /\ rk' = [rk EXCEPT ![t] = 0]
    /\ runpack' = [runpack EXCEPT ![t] = Nil]
    /\ rdr' = [rdr EXCEPT ![t] = NoReader]
    /\ rout' = [rout EXCEPT ![t] = <<>>]
    /\ rret' = [rret EXCEPT ![t] = "pending"]
    /\ UNCHANGED <<refs, objects>>

\* Mutant: a packfile is expected whatever the commands
deleteCommandsOnly_Never(cmds) == FALSE

\* deleteCommandsOnly after the loop that scans the commands: true unless
\* some cmd.newID != object.ZeroID
deleteCommandsOnly(cmds) == \A i \in 1..Len(cmds) : cmds[i].newID = ZeroID

\* The loop that scans the commands up to the flush-pkt, and the check of
\* the capabilities; deleteCommandsOnly decides whether a pack is read
RecvParse(t) ==
    /\ UNCHANGED recvOthers
    /\ rpc[t] = "parse"
    /\ LET in == rin[t]
       IN IF diff(in.caps, Capabilities) # {}
          THEN /\ rret' = [rret EXCEPT ![t] = ErrCaps]
               /\ rpc' = [rpc EXCEPT ![t] = "done"]
          ELSE /\ rpc' = [rpc EXCEPT ![t] =
                            IF deleteCommandsOnly(in.cmds) THEN "line"
                            ELSE "open"]
               /\ UNCHANGED rret
    /\ UNCHANGED <<rcalls, refs, objects, rin, rsnap, rk, runpack, rdr, rout>>

\* packfile.NewReader(r, repo) on the packfile pack: the error and the
\* Reader; binary.Read consumes the header
NewReader(pack) ==
    IF pack.sig = ""
    THEN [err |-> EOF, rd |-> NoReader]
    ELSE IF pack.sig # "PACK"
    THEN [err |-> ErrHeader, rd |-> [NoReader EXCEPT !.pos = HdrLen]]
    ELSE IF pack.version < 2 \/ pack.version > 3
    THEN [err |-> ErrVersion, rd |-> [NoReader EXCEPT !.pos = HdrLen]]
    ELSE [err |-> Nil, rd |-> [NoReader EXCEPT !.n = pack.n, !.pos = HdrLen]]

\* Mutant: the base of an ofs-delta is looked up at negOfs, not at
\* pos - negOfs
BaseOfs_Absolute(ofs, pos, negOfs) ==
    [ok |-> negOfs \in DOMAIN ofs, id |-> Lookup(ofs, negOfs)]

\* baseID, ok = r.ofs[pos-int64(negOfs)]
BaseOfs(ofs, pos, negOfs) ==
    [ok |-> (pos - negOfs) \in DOMAIN ofs, id |-> Lookup(ofs, pos - negOfs)]

\* Mutant: the base of a delta is never asked of the repository
GetBase_Skip(objs, baseID) == Nil

\* base, err = r.repo.GetObject(baseID)
GetBase(objs, baseID) ==
    IF baseID \in objs THEN Nil ELSE ErrObjectNotExist

\* The offset in the stream at which the j-th record of pack begins
RECURSIVE RecStart(_, _)
RecStart(pack, j) ==
    IF j = 1 THEN HdrLen ELSE RecStart(pack, j - 1) + pack.recs[j - 1].len

\* The record of pack that begins at the offset pos of the stream (the
\* one after the last when pos is where the footer begins), 0 when pos is
\* not at the beginning of a record
RecAt(pack, pos) ==
    LET ks == {k \in 1..(Len(pack.recs) + 1) : RecStart(pack, k) = pos}
    IN IF ks = {} THEN 0 ELSE CHOOSE k \in ks : TRUE

\* Mutant: the number of remaining objects is left as it was
AfterBody_KeepsLen(body) == body

\* r.n--, once the body of the record has been read and flushed
AfterBody(body) == [body EXCEPT !.n = @ - 1]

\* r.ReadObject() with the k-th record of pack next in the stream, the
\* Reader being rd and the repository holding objs: the error, the Reader
\* left, and the object put to r.repo
ReadObject(pack, k, rd, objs) ==
    IF k > Len(pack.recs)
    THEN [err |-> EOF, rd |-> rd, put |-> {}]
    ELSE LET rec == pack.recs[k]
             pos == rd.pos
             b == BaseOfs(rd.ofs, pos, rec.negOfs)
             baseID == IF rec.kind = "ofs" THEN b.id
                       ELSE IF rec.kind = "ref" THEN rec.base
                       ELSE ZeroID
             body == [rd EXCEPT !.pos = pos + rec.len, !.baseID = baseID]
             read == AfterBody(body)
         IN IF rec.kind = "bad"
            THEN [err |-> ErrZlib, rd |-> body, put |-> {}]
            ELSE IF rec.kind = "ofs" /\ ~b.ok
            THEN [err |-> ErrBadOffset, rd |-> read, put |-> {}]
            ELSE IF baseID # ZeroID /\ GetBase(objs, baseID) # Nil
            THEN [err |-> GetBase(objs, baseID), rd |-> read, put |-> {}]
            ELSE IF rec.kind = "ref" /\ baseID = ZeroID
            THEN [err |-> ErrType, rd |-> read, put |-> {}]
            ELSE IF baseID # ZeroID /\ rec.apply # Nil
            THEN [err |-> rec.apply, rd |-> read, put |-> {}]
            ELSE [err |-> Nil,
                  rd |-> [read EXCEPT !.ofs = MapSet(@, pos, rec.id)],
                  put |-> {rec.id}]

\* Mutant: the footer is read and not compared
Close_NoCompare(pack, k, rd) ==
    IF k > Len(pack.recs) /\ pack.sum = "cut"
    THEN [err |-> EOF, rd |-> rd]
    ELSE [err |-> Nil, rd |-> [rd EXCEPT !.pos = @ + SumLen]]

\* r.Close() with the k-th record of pack next in the stream: the footer
\* is read and compared with the digest of the bytes read so far
Close(pack, k, rd) ==
    IF k <= Len(pack.recs)
    THEN [err |-> ErrChecksum, rd |-> [rd EXCEPT !.pos = @ + SumLen]]
    ELSE IF pack.sum = "cut"
    THEN [err |-> EOF, rd |-> rd]
    ELSE [err |-> IF pack.sum = "ok" THEN Nil ELSE ErrChecksum,
          rd |-> [rd EXCEPT !.pos = @ + SumLen]]

\* unpack: pfr, err := packfile.NewReader(r, repo)
RecvOpen(t) ==
    /\ UNCHANGED recvOthers
    /\ rpc[t] = "open"
    /\ \E o \in {NewReader(rin[t].pack)} :
          /\ rdr' = [rdr EXCEPT ![t] = o.rd]
          /\ IF o.err # Nil
             THEN /\ runpack' = [runpack EXCEPT ![t] = o.err]
                  /\ rpc' = [rpc EXCEPT ![t] = "line"]
                  /\ UNCHANGED rk
             ELSE /\ rk' = [rk EXCEPT ![t] = 1]
                  /\ rpc' = [rpc EXCEPT ![t] = "put"]
                  /\ UNCHANGED runpack
    /\ UNCHANGED <<rcalls, refs, objects, rin, rsnap, rout, rret>>

\* unpack, one turn of the loop: obj, err := pfr.ReadObject(), which puts
\* obj to repo, and repo.PutObject(obj); an error ends unpack
RecvReadObject(t) ==
    /\ UNCHANGED recvOthers
    /\ rpc[t] = "put"
    /\ rdr[t].n > 0
    /\ \E o \in {ReadObject(rin[t].pack, rk[t], rdr[t], objects)} :
          /\ rdr' = [rdr EXCEPT ![t] = o.rd]
          /\ objects' = PutObject(objects, o.put)
          /\ IF o.err # Nil
             THEN /\ runpack' = [runpack EXCEPT ![t] = o.err]
                  /\ rpc' = [rpc EXCEPT ![t] = "line"]
                  /\ UNCHANGED rk
             ELSE /\ rk' = [rk EXCEPT ![t] = @ + 1]
                  /\ UNCHANGED <<runpack, rpc>>
    /\ UNCHANGED <<rcalls, refs, rin, rsnap, rout, rret>>

\* unpack: the loop ends at pfr.Len() = 0 and pfr.Close() compares the
\* checksum
RecvClose(t) ==
    /\ UNCHANGED recvOthers
    /\ rpc[t] = "put"
    /\ rdr[t].n = 0
    /\ \E o \in {Close(rin[t].pack, rk[t], rdr[t])} :
          /\ rdr' = [rdr EXCEPT ![t] = o.rd]
          /\ runpack' = [runpack EXCEPT ![t] = o.err]
    /\ rpc' = [rpc EXCEPT ![t] = "line"]
    /\ UNCHANGED <<rcalls, refs, objects, rin, rsnap, rk, rout, rret>>

\* fmtLprintf(pktw, "unpack ok\n") or fmtLprintf(pktw, "unpack %s\n", err)
RecvUnpackLine(t) ==
    /\ UNCHANGED recvOthers
    /\ rpc[t] = "line"
    /\ rout' = [rout EXCEPT ![t] =
                  Emit(t, IF runpack[t] = Nil THEN <<"unpack", "ok">>
                          ELSE <<"unpack", runpack[t]>>)]
    /\ rk' = [rk EXCEPT ![t] = 1]
    /\ rpc' = [rpc EXCEPT ![t] =
                 IF Len(rin[t].cmds) >= 1 THEN "getref" ELSE "flush"]
    /\ UNCHANGED <<rcalls, refs, objects, rin, rsnap, runpack, rdr, rret>>

\* Report with a break, not a continue, after the "ng" line
Report_StopAtNg(t, err) ==
    LET c == rin[t].cmds[rk[t]]
    IN /\ rout' = [rout EXCEPT ![t] =
                     Emit(t, IF err = Nil THEN <<"ok", c.name>>
                             ELSE <<"ng", c.name, err>>)]
       /\ rk' = [rk EXCEPT ![t] = @ + 1]
       /\ rpc' = [rpc EXCEPT ![t] =
                    IF rk[t] < Len(rin[t].cmds) /\ err = Nil
                    THEN "getref" ELSE "flush"]

\* repository.UpdateRef has returned err for the command in hand: the
\* "ng" or "ok" line, and on to the next command
Report(t, err) ==
    LET c == rin[t].cmds[rk[t]]
    IN /\ rout' = [rout EXCEPT ![t] =
                     Emit(t, IF err = Nil THEN <<"ok", c.name>>
                             ELSE <<"ng", c.name, err>>)]
       /\ rk' = [rk EXCEPT ![t] = @ + 1]
       /\ rpc' = [rpc EXCEPT ![t] =
                    IF rk[t] < Len(rin[t].cmds) THEN "getref" ELSE "flush"]

\* repository.UpdateRef: id, err := r.GetRef(name) and the first switch
RecvGetRef(t) ==
    /\ UNCHANGED recvOthers
    /\ rpc[t] = "getref"
    /\ LET c == rin[t].cmds[rk[t]]
           id == Lookup(refs, c.name)
           err == IF c.name \in DOMAIN refs THEN Nil ELSE ErrNotExist
       IN IF err = ErrNotExist /\ c.oldID = ZeroID
          THEN IF c.newID # ZeroID
               THEN /\ rpc' = [rpc EXCEPT ![t] = "hasobj"]
                    /\ UNCHANGED <<rout, rk>>
               ELSE Report(t, Nil)
          ELSE IF err # Nil
          THEN Report(t, err)
          ELSE IF id # c.oldID
          THEN Report(t, ErrOldMismatch)
          ELSE IF c.newID # ZeroID
          THEN /\ rpc' = [rpc EXCEPT ![t] = "hasobj"]
               /\ UNCHANGED <<rout, rk>>
          ELSE IF c.oldID = ZeroID
          THEN Report(t, Nil)
          ELSE /\ rpc' = [rpc EXCEPT ![t] = "delref"]
               /\ UNCHANGED <<rout, rk>>
    /\ UNCHANGED <<rcalls, refs, objects, rin, rsnap, runpack, rdr, rret>>

\* Mutant: every object is said to exist
HasObject_Always(objs, id) == TRUE

\* repository.HasObject(r, id)
HasObject(objs, id) == id \in objs

\* repository.UpdateRef: ok, err = HasObject(r, newID) and the second
\* switch
RecvHasObject(t) ==
    /\ UNCHANGED recvOthers
    /\ rpc[t] = "hasobj"
    /\ IF HasObject(objects, rin[t].cmds[rk[t]].newID)
       THEN /\ rpc' = [rpc EXCEPT ![t] = "setref"]
            /\ UNCHANGED <<rout, rk>>
       ELSE Report(t, ErrNewMissing)
    /\ UNCHANGED <<rcalls, refs, objects, rin, rsnap, runpack, rdr, rret>>

\* repository.UpdateRef: return r.SetRef(name, newID)
RecvSetRef(t) ==
    /\ UNCHANGED recvOthers
    /\ rpc[t] = "setref"
    /\ refs' = MapSet(refs, rin[t].cmds[rk[t]].name, rin[t].cmds[rk[t]].newID)
    /\ Report(t, Nil)
    /\ UNCHANGED <<rcalls, objects, rin, rsnap, runpack, rdr, rret>>

\* repository.UpdateRef: return r.DelRef(name)
RecvDelRef(t) ==
    /\ UNCHANGED recvOthers
    /\ rpc[t] = "delref"
    /\ LET name == rin[t].cmds[rk[t]].name
       IN IF name \in DOMAIN refs
          THEN /\ refs' = MapDelete(refs, name)
               /\ Report(t, Nil)
          ELSE /\ UNCHANGED refs
               /\ Report(t, ErrNotExist)
    /\ UNCHANGED <<rcalls, objects, rin, rsnap, runpack, rdr, rret>>

\* pktw.Flush(); return nil
RecvFlush(t) ==
    /\ UNCHANGED recvOthers
    /\ rpc[t] = "flush"
    /\ rout' = [rout EXCEPT ![t] = Emit(t, <<"flush">>)]
    /\ rret' = [rret EXCEPT ![t] = Nil]
    /\ rpc' = [rpc EXCEPT ![t] = "done"]
    /\ UNCHANGED <<rcalls, refs, objects, rin, rsnap, rk, runpack, rdr>>

\* repository.UpdateRef(r, name, oldID, newID) run with no other call on
\* the repository in between, on the refs rf and the objects objs: the
\* error returned and the refs left
UpdateRef(rf, objs, name, oldID, newID) ==
    IF name \notin DOMAIN rf /\ oldID # ZeroID
    THEN [err |-> ErrNotExist, refs |-> rf]
    ELSE IF name \in DOMAIN rf /\ rf[name] # oldID
    THEN [err |-> ErrOldMismatch, refs |-> rf]
    ELSE IF newID # ZeroID
    THEN IF newID \in objs
         THEN [err |-> Nil, refs |-> MapSet(rf, name, newID)]
         ELSE [err |-> ErrNewMissing, refs |-> rf]
    ELSE IF oldID = ZeroID
    THEN [err |-> Nil, refs |-> rf]
    ELSE [err |-> Nil, refs |-> MapDelete(rf, name)]

\* unpack(repo, r) run with no other call on the repository in between,
\* on the packfile pack and the objects objs: the error returned, the
\* objects and the Reader left
RECURSIVE unpackLoop(_, _, _, _)
unpackLoop(pack, k, rd, objs) ==
    IF rd.n = 0
    THEN [err |-> Close(pack, k, rd).err, objects |-> objs,
          rd |-> Close(pack, k, rd).rd]
    ELSE LET o == ReadObject(pack, k, rd, objs)
         IN IF o.err # Nil
            THEN [err |-> o.err, objects |-> PutObject(objs, o.put),
                  rd |-> o.rd]
            ELSE unpackLoop(pack, k + 1, o.rd, PutObject(objs, o.put))

unpack(pack, objs) ==
    LET o == NewReader(pack)
    IN IF o.err # Nil
       THEN [err |-> o.err, objects |-> objs, rd |-> o.rd]
       ELSE unpackLoop(pack, 1, o.rd, objs)

RecvNext(T, Inputs) ==
    \E t \in T :
        \/ \E in \in (IF rpc[t] \in {"idle", "done"} /\ rcalls < MaxPushes
                      THEN Inputs ELSE {}) : RecvStart(t, in)
        \/ RecvParse(t)
        \/ RecvOpen(t)
        \/ RecvReadObject(t)
        \/ RecvClose(t)
        \/ RecvUnpackLine(t)
        \/ RecvGetRef(t)
        \/ RecvHasObject(t)
        \/ RecvSetRef(t)
        \/ RecvDelRef(t)
        \/ RecvFlush(t)

(***************************************************************************)
(* protocol.UploadPack                                                     *)
(*                                                                         *)
(* UploadPack only reads the repository, which is here a fixed object      *)
(* graph: the commits c1 <- c2 <- c3 with their trees and blobs, and the   *)
(* tag g3 of c3.  "zz" is an Id with no object.  The client's stream is    *)
(* a sequence of pkt-lines (want, have, done), flush-pkts, and the way     *)
(* the stream ends; what ReadLine returns for a flush-pkt, at the end of   *)
(* the stream and inside a cut pkt-line is what ReadLineOn returns there.  *)
(***************************************************************************)
MaxBlocks == 2       \* have substreams in one request
MaxOut == 10         \* response lines the model keeps (the rest is dropped)

Commits == {"c1", "c2", "c3"}
Trees == {"t1", "t2", "t3"}
Blobs == {"b1", "b2", "b3"}
Tags == {"g3"}
RepoObjects == Commits \cup Trees \cup Blobs \cup Tags
MissingId == "zz"

\* The Ids an object refers to, in the order Walk appends them to pending:
\* a commit's tree, then its parents; a tree's entries; a tag's object
ObjRefs(id) ==
    CASE id = "c1" -> <<"t1">>
      [] id = "c2" -> <<"t2", "c1">>
      [] id = "c3" -> <<"t3", "c2">>
      [] id = "t1" -> <<"b1">>
      [] id = "t2" -> <<"b1", "b2">>
      [] id = "t3" -> <<"b1", "b2", "b3">>
      [] id = "g3" -> <<"c3">>
      [] OTHER -> <<>>

SeqToSet(s) == {s[i] : i \in 1..Len(s)}

\* The sequences that list every element of the set S once: the orders in
\* which a range statement may run over a map with the keys S
Orders(S) ==
    {s \in [1..Cardinality(S) -> S] :
        \A i \in 1..Cardinality(S), j \in 1..Cardinality(S) :
            i # j => s[i] # s[j]}

\* Only({e : x \in {v}}) is LET x == v IN e, with v evaluated once
Only(S) == CHOOSE x \in S : TRUE

\* repository.Walk(r, start, end, walkFn), for the two walkFn of
\* UploadPack.  pending and visited are Walk's; found is what walkFn has
\* collected.  With mode "common" walkFn is the one of the negotiation:
\* it collects the Ids that are keys of have, and lets Walk go on only
\* through commits and tags.  With mode "pack" it collects every Id.
RECURSIVE Walk(_, _, _, _, _)
Walk(pending, visited, found, have, mode) ==
    Only({IF p = <<>> THEN [err |-> Nil, found |-> f]
          ELSE Only({IF id \in v
                     THEN Walk(rest, v, f, have, mode)
                     ELSE IF id \notin RepoObjects
                     THEN [err |-> ErrNotExist, found |-> f]
                     ELSE IF mode = "common" /\ id \in have
                     THEN Walk(rest, v \cup {id}, Append(f, id), have, mode)
                     ELSE IF mode = "common" /\ id \notin Commits \cup Tags
                     THEN Walk(rest, v \cup {id}, f, have, mode)
                     ELSE Walk(rest \o ObjRefs(id), v \cup {id},
                               IF mode = "pack" THEN Append(f, id) ELSE f,
                               have, mode) :
                        id \in {p[Len(p)]},
                        rest \in {SubSeq(p, 1, Len(p) - 1)}}) :
             p \in {pending}, v \in {visited}, f \in {found}})

\* What pktr.ReadLine returns
FlushErr == ReadLineOn(<<Run("0", 4)>>).err
EndErr == ReadLineOn(<<>>).err
CutErr == ReadLineOn(<<Run("0", 2)>>).err

ErrScan == "unexpected input"
ErrBadCommand == "bad command"

Want(id) == [k |-> "want", id |-> id]
Have(id) == [k |-> "have", id |-> id]
Done == [k |-> "done", id |-> ""]
FlushPkt == [k |-> "flush", id |-> ""]

\* pktr.ReadLine() with the Reader at item pos of the stream in: the
\* line (k, id), the error and the Reader's next position.  A flush-pkt
\* and the end of the stream give no line, only the error.
ReadItem(in, pos) ==
    IF pos <= Len(in.items)
    THEN IF in.items[pos].k = "flush"
         THEN [k |-> "", id |-> "", err |-> FlushErr, pos |-> pos + 1]
         ELSE [k |-> in.items[pos].k, id |-> in.items[pos].id, err |-> Nil,
               pos |-> pos + 1]
    ELSE IF in.cut /\ pos = Len(in.items) + 1
    THEN [k |-> "", id |-> "", err |-> CutErr, pos |-> pos + 1]
    ELSE [k |-> "", id |-> "", err |-> EndErr, pos |-> pos]

\* The loop of UploadPack that scans the want lines
RECURSIVE readWantLines(_, _, _)
readWantLines(in, pos, start) ==
    Only({IF r.err = EOF THEN [start |-> s, err |-> Nil, pos |-> r.pos]
          ELSE IF r.err # Nil THEN [start |-> s, err |-> r.err, pos |-> r.pos]
          ELSE IF r.k # "want"
          THEN [start |-> s, err |-> ErrScan, pos |-> r.pos]
          ELSE readWantLines(in, r.pos, Append(s, r.id)) :
             r \in {ReadItem(in, pos)}, s \in {start}})

\* readHaveLines(pktr)
RECURSIVE readHaveLines(_, _, _)
readHaveLines(in, pos, have) ==
    Only({IF r.err = EOF THEN [have |-> h, err |-> Nil, pos |-> r.pos]
          ELSE IF r.err # Nil THEN [have |-> h, err |-> r.err, pos |-> r.pos]
          ELSE IF r.k = "done" THEN [have |-> h, err |-> EOF, pos |-> r.pos]
          ELSE IF r.k = "have" THEN readHaveLines(in, r.pos, h \cup {r.id})
          ELSE [have |-> h, err |-> ErrBadCommand, pos |-> r.pos] :
             r \in {ReadItem(in, pos)}, h \in {have}})

\* for wantID := range want { repository.Walk(repo, {wantID}, nil, ...) },
\* the range running in the given order: the wants left, the list end,
\* and the haves marked as common
RECURSIVE walkWants(_, _, _, _, _)
walkWants(order, want, end, common, have) ==
    IF order = <<>>
    THEN [err |-> Nil, want |-> want, end |-> end, common |-> common]
    ELSE Only({IF w.err # Nil
               THEN [err |-> w.err, want |-> want, end |-> end,
                     common |-> common]
               ELSE walkWants(Tail(order),
                              IF w.found = <<>> THEN want
                              ELSE want \ {Head(order)},
                              end \o w.found,
                              common \cup SeqToSet(w.found), have) :
                  w \in {Walk(<<Head(order)>>, {}, <<>>, have, "common")}})

\* A line of the response: "ACK id tag", "ACK id", "NAK", or the packfile
Line(k, id, tag) ==
    [k |-> k, id |-> id, tag |-> tag, objs |-> {}, n |-> 0, recs |-> <<>>]

PackLine_NoBlobs(objs) ==
    [k |-> "PACK", id |-> "", tag |-> "", objs |-> objs \ Blobs, n |-> 0,
     recs |-> <<>>]

PackLine(objs) ==
    [k |-> "PACK", id |-> "", tag |-> "", objs |-> objs, n |-> 0,
     recs |-> <<>>]

\* Mutant: Walk is given no objects to end at
WalkEnd_None(end) == {}

\* Walk: for _, id := range end { visited[id] = true }
WalkEnd(end) == SeqToSet(end)

\* sort.Sort(hdrs): the headers by ascending type code (commit, tree,
\* blob, tag); within a type the order is by size, which the model does
\* not keep, so the order of the walk is left
SelectIn(hdrs, S) == SelectSeq(hdrs, LAMBDA id : id \in S)
SortHdrs(hdrs) ==
    SelectIn(hdrs, Commits) \o SelectIn(hdrs, Trees)
    \o SelectIn(hdrs, Blobs) \o SelectIn(hdrs, Tags)

\* packfile.NewWriter(w, int64(len(hdrs))), pfw.WriteObject(obj) for each
\* of the sorted hdrs, and pfw.Close(): the count of the header and the
\* Ids of the objects of the records
WritePack(hdrs) ==
    [PackLine(SeqToSet(hdrs)) EXCEPT !.n = Len(hdrs),
                                     !.recs = SortHdrs(hdrs)]

\* The requests of the model: the want lines, with the capabilities on the
\* first; a flush-pkt; up to MaxBlocks have substreams, each ended by a
\* flush-pkt but for the last, which may end with done; then the stream
\* ends, cleanly or inside a pkt-line
WantLists ==
    {<<>>, <<"c3">>, <<"c2">>, <<"g3">>, <<"c3", "c2">>, <<MissingId>>}
CapSets ==
    {{}, {"multi_ack_detailed"}, {"multi_ack_detailed", "no-done"},
     {"no-done"}, {"multi_ack_detailed", "side-band"}}
HaveLists ==
    {<<>>, <<"c1">>, <<"c2">>, <<MissingId>>, <<"c2", "c1">>,
     <<MissingId, "c2">>}
HaveBlocks ==
    {[i \in 1..Len(hs) |-> Have(hs[i])] \o <<end>> :
        hs \in HaveLists, end \in {FlushPkt, Done}}

RECURSIVE BlockSeqs(_)
BlockSeqs(n) ==
    IF n = 0 THEN {<<>>}
    ELSE BlockSeqs(n - 1) \cup
         {s \o b : s \in {x \in BlockSeqs(n - 1) :
                             x = <<>> \/ x[Len(x)] # Done},
                   b \in HaveBlocks}

RequestsOf(W, C, B) ==
    {[items |-> [i \in 1..Len(ws) |-> Want(ws[i])] \o <<FlushPkt>> \o bs,
      caps |-> caps, cut |-> cut] :
        ws \in W, caps \in C, bs \in B, cut \in BOOLEAN}
    \cup
    {[items |-> [i \in 1..Len(ws) |-> Want(ws[i])], caps |-> caps,
      cut |-> cut] :
        ws \in W, caps \in C, cut \in BOOLEAN}

Requests == RequestsOf(WantLists, CapSets, BlockSeqs(MaxBlocks))

\* The requests of one want and at most one have substream
ShortRequests ==
    RequestsOf({<<"c3">>, <<"c2">>}, {{}, {"multi_ack_detailed"}},
               BlockSeqs(1))

NoRequest == [items |-> <<>>, caps |-> {}, cut |-> FALSE]
NoMsg == [k |-> "", id |-> ""]

UpInit ==
    /\ upc = "idle"
    /\ uin = NoRequest
    /\ upos = 1
    /\ uwant = {}
    /\ ustart = <<>>
    /\ uend = <<>>
    /\ uhave = {}
    /\ uerr = Nil
    /\ umsg = NoMsg
    /\ uout = <<>>
    /\ uret = "pending"
    /\ useen = {}

\* fmtLprintf(pktw, ...) of each line of ls in turn; of a response longer
\* than MaxOut lines the model keeps the first MaxOut
RECURSIVE EmitAll(_, _)
EmitAll(out, ls) ==
    IF ls = <<>> \/ Len(out) >= MaxOut THEN out
    ELSE EmitAll(Append(out, Head(ls)), Tail(ls))

\* UploadPack is called on the request in
UpStart(in) ==
    /\ UNCHANGED upOthers
    /\ upc = "idle"
    /\ upc' = "wants"
    /\ uin' = in
    /\ UNCHANGED <<upos, uwant, ustart, uend, uhave, uerr, umsg, uout, uret,
                   useen>>

\* The want lines, len(want) == 0, and the check of the capabilities
UpWants ==
    /\ UNCHANGED upOthers
    /\ upc = "wants"
    /\ \E w \in {readWantLines(uin, upos, <<>>)} :
          /\ upos' = w.pos
          /\ IF w.err # Nil
             THEN /\ uret' = w.err
                  /\ upc' = "done"
                  /\ UNCHANGED <<uwant, ustart>>
             ELSE IF w.start = <<>>
             THEN /\ uret' = Nil
                  /\ upc' = "done"
                  /\ UNCHANGED <<uwant, ustart>>
             ELSE IF sub(uin.caps, Capabilities) # {}
             THEN /\ uret' = ErrCaps
                  /\ upc' = "done"
                  /\ UNCHANGED <<uwant, ustart>>
             ELSE /\ uwant' = SeqToSet(w.start)
                  /\ ustart' = w.start
                  /\ upc' = "haves"
                  /\ UNCHANGED uret
    /\ UNCHANGED <<uin, uend, uhave, uerr, umsg, uout, useen>>

\* AckLines with "ACK id" in place of NAK once a common object is known
AckLines_AckAtFlush(acks, want, end, caps, err) ==
    [lines |->
        (IF "multi_ack_detailed" \in caps
         THEN [i \in 1..Len(acks) |-> Line("ACK", acks[i], "common")]
         ELSE <<>>)
        \o (IF Len(end) > 0 THEN <<Line("ACK", end[Len(end)], "")>>
            ELSE <<Line("NAK", "", "")>>),
     err |-> err]

\* AckLines with NAK as the last line whatever was found
AckLines_AlwaysNak(acks, want, end, caps, err) ==
    [lines |->
        (IF "multi_ack_detailed" \in caps
         THEN [i \in 1..Len(acks) |-> Line("ACK", acks[i], "common")]
         ELSE <<>>)
        \o <<Line("NAK", "", "")>>,
     err |-> err]

\* AckLines with the end of every have substream taken for a done line
AckLines_FlushIsDone(acks, want, end, caps, err) ==
    [lines |->
        (IF "multi_ack_detailed" \in caps
         THEN [i \in 1..Len(acks) |-> Line("ACK", acks[i], "common")]
         ELSE <<>>)
        \o (IF Len(end) > 0 THEN <<Line("ACK", end[Len(end)], "")>>
            ELSE <<Line("NAK", "", "")>>),
     err |-> EOF]

\* The lines one turn of the negotiation loop writes once the wants are
\* walked: acks lists the common haves in the order of the range over
\* have; err is the error of readHaveLines
AckLines(acks, want, end, caps, err) ==
    LET mad == "multi_ack_detailed" \in caps
        ready == mad /\ want = {}
        asDone == ready /\ "no-done" \in caps /\ err = Nil
        err2 == IF asDone THEN EOF ELSE err
    IN [lines |->
            (IF mad
             THEN [i \in 1..Len(acks) |-> Line("ACK", acks[i], "common")]
             ELSE <<>>)
            \o (IF ready THEN <<Line("ACK", end[Len(end)], "ready")>>
                ELSE <<>>)
            \o (IF asDone THEN <<Line("NAK", "", "")>> ELSE <<>>)
            \o (IF Len(end) > 0 /\ ((err2 = EOF) = mad)
                THEN <<Line("ACK", end[Len(end)], "")>>
                ELSE <<Line("NAK", "", "")>>),
        err |-> err2]

\* A turn of the negotiation loop begins: pktr.Next(), readHaveLines, and
\* the two early returns
UpHaves ==
    /\ UNCHANGED upOthers
    /\ upc = "haves"
    /\ \E h \in {readHaveLines(uin, upos, {})} :
          /\ upos' = h.pos
          /\ useen' = useen \cup h.have
          /\ IF h.have = {} /\ h.err = ErrUnexpectedEOF
             THEN /\ uret' = Nil
                  /\ upc' = "done"
                  /\ UNCHANGED <<uhave, uerr>>
             ELSE IF h.err # EOF /\ h.err # Nil
             THEN /\ uret' = h.err
                  /\ upc' = "done"
                  /\ UNCHANGED <<uhave, uerr>>
             ELSE /\ uhave' = h.have
                  /\ uerr' = h.err
                  /\ upc' = "walk"
                  /\ UNCHANGED uret
    /\ UNCHANGED <<uin, uwant, ustart, uend, umsg, uout>>

\* The turn ends: the walk from every want, the ACK and NAK lines, and
\* the break after a done line
UpAnswer ==
    /\ UNCHANGED upOthers
    /\ upc = "walk"
    /\ \E order \in Orders(uwant) :
       \E w \in {walkWants(order, uwant, uend, {}, uhave)} :
         IF w.err # Nil
         THEN /\ uret' = w.err
              /\ upc' = "done"
              /\ UNCHANGED <<uwant, uend, uout>>
         ELSE \E acks \in Orders(w.common) :
              \E a \in {AckLines(acks, w.want, w.end, uin.caps, uerr)} :
                /\ uwant' = w.want
                /\ uend' = w.end
                /\ uout' = EmitAll(uout, a.lines)
                /\ upc' = IF a.err = EOF THEN "pack" ELSE "haves"
                /\ UNCHANGED uret
    /\ uhave' = {}
    /\ uerr' = Nil
    /\ UNCHANGED <<uin, upos, ustart, umsg, useen>>

\* repository.Walk(repo, start, end, ...), sort.Sort(hdrs) and the
\* packfile, kept as the set of the Ids of its objects
UpPack ==
    /\ UNCHANGED upOthers
    /\ upc = "pack"
    /\ \E w \in {Walk(ustart, WalkEnd(uend), <<>>, {}, "pack")} :
          IF w.err # Nil
          THEN /\ uret' = w.err
               /\ UNCHANGED uout
          ELSE /\ uret' = Nil
               /\ uout' = EmitAll(uout, <<WritePack(w.found)>>)
    /\ upc' = "done"
    /\ UNCHANGED <<uin, upos, uwant, ustart, uend, uhave, uerr, umsg, useen>>

UpNext(R) ==
    \/ \E in \in (IF upc = "idle" THEN R ELSE {}) : UpStart(in)
    \/ UpWants
    \/ UpHaves
    \/ UpAnswer
    \/ UpPack

(***************************************************************************)
(* protocol.UploadPack as it was with the function negotiate               *)
(*                                                                         *)
(* The earlier UploadPack reads the have lines one by one in negotiate,    *)
(* which asks the repository for each of them, and makes the pack with     *)
(* repository.Negotiate.  Its actions work on the variables of UploadPack: *)
(* uwant is its slice want, uend the slice common.                         *)
(***************************************************************************)
\* repository.Negotiate(r, want, have): want is the queue, has the keys of
\* the map has, got the keys whose object was fetched
RECURSIVE Negotiate(_, _, _)
Negotiate(want, has, got) ==
    Only({IF q = <<>> THEN [err |-> Nil, objs |-> g]
          ELSE IF Head(q) \in h THEN Negotiate(Tail(q), h, g)
          ELSE IF Head(q) \notin RepoObjects
          THEN [err |-> ErrNotExist, objs |-> {}]
          ELSE Negotiate(Tail(q) \o ObjRefs(Head(q)), h \cup {Head(q)},
                         g \cup {Head(q)}) :
             q \in {want}, h \in {has}, g \in {got}})

\* The want lines and the check of the capabilities; pktr.Next()
NgWants ==
    /\ UNCHANGED upOthers
    /\ upc = "wants"
    /\ \E w \in {readWantLines(uin, upos, <<>>)} :
          /\ upos' = w.pos
          /\ IF w.err # Nil
             THEN /\ uret' = w.err
                  /\ upc' = "done"
                  /\ UNCHANGED ustart
             ELSE IF diff(uin.caps, Capabilities) # {}
             THEN /\ uret' = ErrCaps
                  /\ upc' = "done"
                  /\ UNCHANGED ustart
             ELSE /\ ustart' = w.start
                  /\ upc' = "read"
                  /\ UNCHANGED uret
    /\ UNCHANGED <<uin, uwant, uend, uhave, uerr, umsg, uout, useen>>

\* negotiate: msg, err = pktr.ReadLine()
NgReadLine ==
    /\ UNCHANGED upOthers
    /\ upc = "read"
    /\ \E r \in {ReadItem(uin, upos)} :
          /\ upos' = r.pos
          /\ uerr' = r.err
          /\ umsg' = [k |-> r.k, id |-> r.id]
    /\ upc' = "handle"
    /\ UNCHANGED <<uin, uwant, ustart, uend, uhave, uout, uret, useen>>

\* negotiate: the switch on err and msg, the have line, and back to the
\* head of the loop or out of negotiate
NgHandle ==
    /\ UNCHANGED upOthers
    /\ upc = "handle"
    /\ LET multiAck == "multi_ack_detailed" \in uin.caps
       IN IF uerr = EOF
          THEN /\ uout' = IF uend = <<>> \/ multiAck
                          THEN EmitAll(uout, <<Line("NAK", "", "")>>)
                          ELSE uout
               /\ upc' = "read"
               /\ UNCHANGED <<uend, uret, useen>>
          ELSE IF uerr # Nil
          THEN /\ uret' = uerr
               /\ upc' = "done"
               /\ UNCHANGED <<uend, uout, useen>>
          ELSE IF umsg.k = "done"
          THEN /\ uout' = IF uend = <<>>
                          THEN EmitAll(uout, <<Line("NAK", "", "")>>)
                          ELSE IF multiAck
                          THEN EmitAll(uout,
                                       <<Line("ACK", uend[Len(uend)], "")>>)
                          ELSE uout
               /\ upc' = "pack"
               /\ UNCHANGED <<uend, uret, useen>>
          ELSE IF umsg.k # "have"
          THEN /\ uret' = ErrScan
               /\ upc' = "done"
               /\ UNCHANGED <<uend, uout, useen>>
          ELSE /\ useen' = useen \cup {umsg.id}
               /\ IF umsg.id \in RepoObjects
                  THEN /\ uout' = IF multiAck
                                  THEN EmitAll(uout, <<Line("ACK", umsg.id,
                                                           "common")>>)
                                  ELSE IF uend = <<>>
                                  THEN EmitAll(uout,
                                               <<Line("ACK", umsg.id, "")>>)
                                  ELSE uout
                       /\ uend' = Append(uend, umsg.id)
                  ELSE UNCHANGED <<uout, uend>>
               /\ upc' = "read"
               /\ UNCHANGED uret
    /\ uerr' = Nil
    /\ umsg' = NoMsg
    /\ UNCHANGED <<uin, upos, uwant, ustart, uhave>>

\* repository.Negotiate(repo, want, common) and writePack(w, objs)
NgPack ==
    /\ UNCHANGED upOthers
    /\ upc = "pack"
    /\ \E n \in {Negotiate(ustart, SeqToSet(uend), {})} :
          IF n.err # Nil
          THEN /\ uret' = n.err
               /\ UNCHANGED uout
          ELSE /\ uret' = Nil
               /\ uout' = EmitAll(uout, <<PackLine(n.objs)>>)
    /\ upc' = "done"
    /\ UNCHANGED <<uin, upos, uwant, ustart, uend, uhave, uerr, umsg, useen>>

NgNext(R) ==
    \/ \E in \in (IF upc = "idle" THEN R ELSE {}) : UpStart(in)
    \/ NgWants
    \/ NgReadLine
    \/ NgHandle
    \/ NgPack

(***************************************************************************)
(* protocol.AdvertiseRefs                                                  *)
(*                                                                         *)
(* The object with the Id AnnotatedTag.id is an annotated tag of the       *)
(* commit AnnotatedTag.object; every other object is not a tag.            *)
(***************************************************************************)
\* The bytes the refnames of the model are made of, in ascending order
AsciiBytes ==
    <<".", "/", "A", "D", "E", "H", "^", "a", "b", "c", "d", "e", "f", "h",
      "i", "k", "l", "m", "o", "p", "r", "s", "t", "x", "y", "{", "}">>
ByteOf(c) == CHOOSE i \in 1..Len(AsciiBytes) : AsciiBytes[i] = c

\* a < b for Go strings
StringLess(a, b) ==
    \/ Len(a) < Len(b) /\ SubSeq(b, 1, Len(a)) = a
    \/ \E i \in 1..Len(a) :
           /\ i <= Len(b)
           /\ SubSeq(a, 1, i - 1) = SubSeq(b, 1, i - 1)
           /\ ByteOf(a[i]) < ByteOf(b[i])

\* names.Sort() of sort.StringSlice
RECURSIVE SortStrings(_)
SortStrings(S) ==
    IF S = {} THEN <<>>
    ELSE LET m == CHOOSE x \in S : \A y \in S \ {x} : StringLess(x, y)
         IN <<m>> \o SortStrings(S \ {m})

\* r.ListRefs(): the names in ascending order and the Ids they hold
ListRefs(rf) ==
    LET names == SortStrings(DOMAIN rf)
    IN [names |-> names, ids |-> [i \in 1..Len(names) |-> rf[names[i]]]]

\* r.GetRef(name)
GetRef(rf, name) ==
    IF ~IsValidRef(name) THEN [err |-> ErrInvalidRef, id |-> ZeroID]
    ELSE IF name \notin DOMAIN rf THEN [err |-> ErrRefNotExist, id |-> ZeroID]
    ELSE [err |-> Nil, id |-> rf[name]]

AnnotatedTag == [id |-> 2, object |-> 1]
ErrTypeError == "bad Git object type"

\* repository.GetTag(r, id) on the object store objs
GetTag(objs, id) ==
    IF id \notin objs THEN [err |-> ErrObjectNotExist, object |-> ZeroID]
    ELSE IF id # AnnotatedTag.id THEN [err |-> ErrTypeError, object |-> ZeroID]
    ELSE [err |-> Nil, object |-> AnnotatedTag.object]

\* "capabilities^{}"
CapsName == <<"c", "a", "p", "a", "b", "i", "l", "i", "t", "i", "e", "s",
              "^", "{", "}">>

\* The pkt-lines of the advertisement: "id name\x00capabilities\n" when
\* caps, "id name\n" otherwise, "id name^{}\n" when peeled; the flush-pkt
AdvLine(id, name, caps, peeled) ==
    [k |-> "ref", id |-> id, name |-> name, caps |-> caps, peeled |-> peeled]
AdvFlush ==
    [k |-> "flush", id |-> ZeroID, name |-> <<>>, caps |-> FALSE,
     peeled |-> FALSE]

\* The lines for names[i..] without the capabilities: the ref, and the
\* object its Id is a tag of
RECURSIVE AdvPlain(_, _, _, _)
AdvPlain(names, ids, i, objs) ==
    IF i > Len(names) THEN <<>>
    ELSE <<AdvLine(ids[i], names[i], FALSE, FALSE)>>
         \o (IF GetTag(objs, ids[i]).err = Nil
             THEN <<AdvLine(GetTag(objs, ids[i]).object, names[i], FALSE,
                            TRUE)>>
             ELSE <<>>)
         \o AdvPlain(names, ids, i + 1, objs)

\* Mutant: the capabilities go with the HEAD line, or with the
\* capabilities^{} line of a repository without refs, and with no other
AdvLines_CapsOnHeadOnly(names, ids, head, objs) ==
    (IF head.err = Nil THEN <<AdvLine(head.id, RefHEAD, TRUE, FALSE)>>
     ELSE IF Len(names) = 0 THEN <<AdvLine(ZeroID, CapsName, TRUE, FALSE)>>
     ELSE <<>>)
    \o AdvPlain(names, ids, 1, objs) \o <<AdvFlush>>

\* The lines AdvertiseRefs writes, ListRefs having returned names and ids
\* and GetRef(HEAD) head: HEAD is put before the names when it resolves,
\* capabilities^{} stands for an empty list, and the line of index 0
\* carries the capabilities
AdvLines(names, ids, head, objs) ==
    LET ns == IF head.err = Nil THEN <<RefHEAD>> \o names ELSE names
        is == IF head.err = Nil THEN <<head.id>> \o ids ELSE ids
        ns0 == IF Len(ns) = 0 THEN <<CapsName>> ELSE ns
        is0 == IF Len(ns) = 0 THEN <<ZeroID>> ELSE is
        rest == AdvPlain(ns0, is0, 1, objs)
    IN <<[rest[1] EXCEPT !.caps = TRUE]>> \o Tail(rest) \o <<AdvFlush>>

NoHead == [err |-> "pending", id |-> ZeroID]
NoAdv == [pc |-> "idle", names |-> <<>>, ids |-> <<>>, head |-> NoHead,
          out |-> <<>>]

AdvInit == adv = NoAdv

\* AdvertiseRefs is called: names, ids, err := repo.ListRefs()
AdvListRefs ==
    /\ UNCHANGED advOthers
    /\ adv.pc \in {"idle", "done"}
    /\ CanRLock(refsLock)
    /\ adv' = [NoAdv EXCEPT !.pc = "listed", !.names = ListRefs(refs).names,
                            !.ids = ListRefs(refs).ids]

\* HEAD, _ := repo.GetHEAD(); repo.GetRef(HEAD); the loop that writes the
\* lines; pktw.Flush()
AdvWrite ==
    /\ UNCHANGED advOthers
    /\ adv.pc = "listed"
    /\ CanRLock(refsLock)
    /\ CanRLock(objectsLock)
    /\ \E head \in {GetRef(refs, HEAD)} :
           adv' = [adv EXCEPT !.pc = "done", !.head = head,
                              !.out = AdvLines(adv.names, adv.ids, head,
                                               objects)]

(***************************************************************************)
(* packfile: base128                                                       *)
(*                                                                         *)
(* A uint64 is the sequence of its base-128 digits, least significant      *)
(* first: nine digits of seven bits and a tenth that is bit 63.  A byte is *)
(* a number in 0..255.                                                     *)
(***************************************************************************)
\* The number of base-128 digits of a uint64 (binary.MaxVarintLen64)
MaxVarintLen64 == 10
DigitMax(i) == IF i = MaxVarintLen64 THEN 1 ELSE 127
U64Zero == [i \in 1..MaxVarintLen64 |-> 0]
\* ^uint64(0)
U64Ones == [i \in 1..MaxVarintLen64 |-> DigitMax(i)]
\* 1<<57 - 1
MBELimit == [i \in 1..MaxVarintLen64 |-> IF i <= 8 THEN 127
                                         ELSE IF i = 9 THEN 1 ELSE 0]

\* x >> 7
Shr7(x) ==
    [i \in 1..MaxVarintLen64 |->
        IF i = MaxVarintLen64 THEN 0 ELSE x[i + 1]]

\* x<<7 | c for a c of seven bits; the bits shifted beyond bit 63 are lost
Shl7Or(x, c) ==
    [i \in 1..MaxVarintLen64 |->
        IF i = 1 THEN c
        ELSE IF i = MaxVarintLen64 THEN x[i - 1] % 2
        ELSE x[i - 1]]

\* x - 1 in uint64: 0 - 1 is ^uint64(0)
U64Dec(x) ==
    IF x = U64Zero THEN U64Ones
    ELSE LET k == CHOOSE j \in 1..MaxVarintLen64 :
                      x[j] # 0 /\ \A h \in 1..(j - 1) : x[h] = 0
         IN [i \in 1..MaxVarintLen64 |->
                IF i < k THEN DigitMax(i)
                ELSE IF i = k THEN x[i] - 1 ELSE x[i]]

\* x + 1 in uint64: ^uint64(0) + 1 is 0
U64Inc(x) ==
    IF x = U64Ones THEN U64Zero
    ELSE LET k == CHOOSE j \in 1..MaxVarintLen64 :
                      x[j] # DigitMax(j)
                      /\ \A h \in 1..(j - 1) : x[h] = DigitMax(h)
         IN [i \in 1..MaxVarintLen64 |->
                IF i < k THEN 0
                ELSE IF i = k THEN x[i] + 1 ELSE x[i]]

\* x >= y
U64GE(x, y) ==
    \/ x = y
    \/ \E k \in 1..MaxVarintLen64 :
           /\ x[k] > y[k]
           /\ \A h \in (k + 1)..MaxVarintLen64 : x[h] = y[h]

\* The number of significant base-128 digits of x, at least one
U64Len(x) ==
    IF x = U64Zero THEN 1
    ELSE CHOOSE k \in 1..MaxVarintLen64 :
             x[k] # 0 /\ \A h \in (k + 1)..MaxVarintLen64 : x[h] = 0

ErrOverflow == "binary: varint overflows a 64-bit integer"
ErrMBEOverflow == "base128: MBE-encoded number overflows a 64-bit integer"

\* binary.PutUvarint: seven bits a byte, the low ones first, bit 7 set on
\* every byte but the last
WriteLE(x) ==
    [i \in 1..U64Len(x) |-> IF i < U64Len(x) THEN x[i] + 128 ELSE x[i]]

\* binary.ReadUvarint on the bytes buf: the value, the number of bytes
\* taken from the reader, the error
ReadLE(buf) ==
    IF \A i \in 1..Len(buf) : buf[i] >= 128
    THEN [x |-> U64Zero, n |-> Len(buf), err |-> EOF]
    ELSE LET k == CHOOSE j \in 1..Len(buf) :
                      buf[j] < 128 /\ \A h \in 1..(j - 1) : buf[h] >= 128
         IN IF k > MaxVarintLen64
                \/ (k = MaxVarintLen64 /\ buf[k] > 1)
            THEN [x |-> U64Zero, n |-> k, err |-> ErrOverflow]
            ELSE [x |-> [i \in 1..MaxVarintLen64 |->
                            IF i <= k THEN buf[i] % 128 ELSE 0],
                  n |-> k, err |-> Nil]

\* Mutant: the big-endian encoding without the twist, the bytes before
\* the last being those of x>>7 and not of x>>7 - 1
RECURSIVE mbeHead_NoTwist(_, _)
mbeHead_NoTwist(x, room) ==
    IF x = U64Zero THEN <<>>
    ELSE IF room = 0 THEN <<-1>>
    ELSE mbeHead_NoTwist(Shr7(x), room - 1) \o <<x[1] + 128>>
WriteMBE_NoTwist(x) ==
    mbeHead_NoTwist(Shr7(x), MaxVarintLen64 - 1) \o <<x[1]>>

\* The loop of WriteMBE, x being x>>7 - 1 of the number before: the bytes
\* put before p[i], room being i.  A byte of -1 stands for the panic of
\* an index below the buffer
RECURSIVE mbeHead(_, _)
mbeHead(x, room) ==
    IF x = U64Ones THEN <<>>
    ELSE IF room = 0 THEN <<-1>>
    ELSE mbeHead(U64Dec(Shr7(x)), room - 1) \o <<x[1] + 128>>

\* WriteMBE: the last byte holds the low seven bits of x
WriteMBE(x) ==
    mbeHead(U64Dec(Shr7(x)), MaxVarintLen64 - 1) \o <<x[1]>>

\* The loop of ReadMBE after the byte buf[k - 1], x being the value so far
RECURSIVE mbeLoop(_, _, _)
mbeLoop(buf, k, x) ==
    IF buf[k - 1] < 128 THEN [x |-> x, n |-> k - 1, err |-> Nil]
    ELSE IF U64GE(x, MBELimit)
    THEN [x |-> x, n |-> k - 1, err |-> ErrMBEOverflow]
    ELSE IF k > Len(buf) THEN [x |-> x, n |-> k - 1, err |-> EOF]
    ELSE mbeLoop(buf, k + 1, Shl7Or(U64Inc(x), buf[k] % 128))

\* ReadMBE on the bytes buf: the value, the number of bytes taken from
\* the reader, the error
ReadMBE(buf) ==
    IF Len(buf) = 0 THEN [x |-> U64Zero, n |-> 0, err |-> EOF]
    ELSE mbeLoop(buf, 2,
                 [i \in 1..MaxVarintLen64 |->
                     IF i = 1 THEN buf[1] % 128 ELSE 0])

NoRead == [x |-> U64Zero, n |-> 0, err |-> "pending"]
NoB128 == [pc |-> "idle", x |-> U64Zero, le |-> <<>>, mbe |-> <<>>,
           rle |-> NoRead, rmbe |-> NoRead, ofs |-> "pending"]

B128Init == b128 = NoB128

\* The bytes that follow an encoded number in the stream it is read from
B128Rest == <<129, 5>>

\* WriteLE(w, x) and WriteMBE(w, x)
B128Write(x) ==
    /\ UNCHANGED libOthers
    /\ UNCHANGED <<codec, pf>>
    /\ b128.pc = "idle"
    /\ b128' = [b128 EXCEPT !.pc = "written", !.x = x, !.le = WriteLE(x),
                            !.mbe = WriteMBE(x)]

\* ReadLE(r) and ReadMBE(r), r holding the bytes written and more
B128Read ==
    /\ UNCHANGED libOthers
    /\ UNCHANGED <<codec, pf>>
    /\ b128.pc = "written"
    /\ \A i \in 1..Len(b128.mbe) : b128.mbe[i] >= 0
    /\ b128' = [b128 EXCEPT !.pc = "read",
                            !.rle = ReadLE(b128.le \o B128Rest),
                            !.rmbe = ReadMBE(b128.mbe \o B128Rest)]

ErrOfsOverflow == "packfile: delta offset overflows int64"

\* int64(x) < 0: bit 63 of x is set
Int64Negative(x) == x[MaxVarintLen64] = 1

\* Reader.ReadObject on an ofs-delta, the bytes buf following the object
\* header: the error of reading the offset, Nil when it is accepted
readNegOfs(buf) ==
    LET r == ReadMBE(buf)
    IN IF r.err # Nil THEN r.err
       ELSE IF Int64Negative(r.x) THEN ErrOfsOverflow
       ELSE Nil

\* ReadMBE(r), and the offset of an ofs-delta read by the packfile Reader,
\* r holding the bytes buf, which need not be what WriteMBE writes
B128Decode(buf) ==
    /\ UNCHANGED libOthers
    /\ UNCHANGED <<codec, pf>>
    /\ b128.pc = "idle"
    /\ b128' = [b128 EXCEPT !.pc = "decoded", !.mbe = buf,
                            !.rmbe = ReadMBE(buf), !.ofs = readNegOfs(buf)]

(***************************************************************************)
(* object: Marshal, Unmarshal, Hash                                        *)
(*                                                                         *)
(* Data is a sequence of tokens: a token is a byte (or a keyword of the    *)
(* format), the forty hex digits or twenty bytes of an Id, a decimal or    *)
(* octal number, or a timezone "+hhmm".  The length of data is its number  *)
(* of tokens.  SHA-1 is taken to have no collisions: the Id of an object   *)
(* is its data.  Strings of an object are sequences of its bytes.          *)
(***************************************************************************)
\* The byte 0
NUL == "NUL"
Ch(c) == [t |-> "c", c |-> c, n |-> 0]
IdTok(id) == [t |-> "id", c |-> "", n |-> id]
NumTok(n) == [t |-> "num", c |-> "", n |-> n]
ZoneTok(sign, hhmm) == [t |-> "zone", c |-> sign, n |-> hhmm]
Chs(str) == [i \in 1..Len(str) |-> Ch(str[i])]
Strs(toks) == [i \in 1..Len(toks) |-> toks[i].c]
IsCh(buf, i, c) == i <= Len(buf) /\ buf[i].t = "c" /\ buf[i].c = c
IsTok(buf, i, t) == i <= Len(buf) /\ buf[i].t = t

\* Go's integer division and remainder, which truncate towards zero
GoDiv(a, b) == IF a >= 0 THEN a \div b ELSE -((-a) \div b)
GoRem(a, b) == a - GoDiv(a, b) * b

ModeTree == 16384
ModeBlob == 33188

NoSignature == [name |-> <<>>, email |-> <<>>, unix |-> 0, offset |-> 0]
NoObject ==
    [kind |-> "", data |-> <<>>, entries |-> {}, tree |-> ZeroID,
     parent |-> <<>>, author |-> NoSignature, committer |-> NoSignature,
     object |-> ZeroID, type |-> "", tag |-> <<>>, tagger |-> NoSignature,
     message |-> <<>>]
Blob(data) == [NoObject EXCEPT !.kind = "blob", !.data = data]
Tree(entries) == [NoObject EXCEPT !.kind = "tree", !.entries = entries]
Commit(tree, parent, author, committer, message) ==
    [NoObject EXCEPT !.kind = "commit", !.tree = tree, !.parent = parent,
                     !.author = author, !.committer = committer,
                     !.message = message]
Tag(object, type, tag, tagger, message) ==
    [NoObject EXCEPT !.kind = "tag", !.object = object, !.type = type,
                     !.tag = tag, !.tagger = tagger, !.message = message]
TypeNames == {"commit", "tree", "blob", "tag"}

\* prependHeader: "type len\x00" before the data
prependHeader(objType, data) ==
    <<Ch(objType), Ch(" "), NumTok(Len(data)), Ch(NUL)>> \o data

\* Signature.String: "Name <Email> unix -0700"
SignatureString(sig) ==
    Chs(sig.name) \o <<Ch(" "), Ch("<")>> \o Chs(sig.email)
    \o <<Ch(">"), Ch(" "), NumTok(sig.unix), Ch(" ")>>
    \o (LET a == IF sig.offset < 0 THEN -sig.offset ELSE sig.offset
        IN <<ZoneTok(IF sig.offset < 0 THEN "-" ELSE "+",
                     (a \div 3600) * 100 + (a % 3600) \div 60)>>)

\* Tree.Names: the names in byte order, those of sub-trees compared as if
\* they ended with "/"
TreeNames(entries) ==
    LET keyed == {IF en.mode = ModeTree THEN en.name \o <<"/">>
                  ELSE en.name : en \in entries}
        sorted == SortStrings(keyed)
    IN [i \in 1..Len(sorted) |->
           IF sorted[i][Len(sorted[i])] = "/"
           THEN SubSeq(sorted[i], 1, Len(sorted[i]) - 1) ELSE sorted[i]]
EntryOf(entries, name) == CHOOSE en \in entries : en.name = name

\* Tree.MarshalBinary before the header: "%o %s\x00" and the Id of
\* each entry
RECURSIVE TreeBody(_, _, _)
TreeBody(entries, names, i) ==
    IF i > Len(names) THEN <<>>
    ELSE <<NumTok(EntryOf(entries, names[i]).mode), Ch(" ")>>
         \o Chs(names[i])
         \o <<Ch(NUL), IdTok(EntryOf(entries, names[i]).object)>>
         \o TreeBody(entries, names, i + 1)

RECURSIVE ParentLines(_, _)
ParentLines(parent, i) ==
    IF i > Len(parent) THEN <<>>
    ELSE <<Ch("parent"), Ch(" "), IdTok(parent[i]), Ch("\n")>>
         \o ParentLines(parent, i + 1)

\* MarshalText of the four kinds
MarshalText(obj) ==
    IF obj.kind = "blob" THEN Chs(obj.data)
    ELSE IF obj.kind = "tree"
    THEN TreeBody(obj.entries, TreeNames(obj.entries), 1)
    ELSE IF obj.kind = "commit"
    THEN <<Ch("tree"), Ch(" "), IdTok(obj.tree), Ch("\n")>>
         \o ParentLines(obj.parent, 1)
         \o <<Ch("author"), Ch(" ")>> \o SignatureString(obj.author)
         \o <<Ch("\n"), Ch("committer"), Ch(" ")>>
         \o SignatureString(obj.committer)
         \o <<Ch("\n"), Ch("\n")>> \o Chs(obj.message)
    ELSE <<Ch("object"), Ch(" "), IdTok(obj.object), Ch("\n"),
           Ch("type"), Ch(" "), Ch(obj.type), Ch("\n"),
           Ch("tag"), Ch(" ")>> \o Chs(obj.tag)
         \o <<Ch("\n"), Ch("tagger"), Ch(" ")>>
         \o SignatureString(obj.tagger)
         \o <<Ch("\n"), Ch("\n")>> \o Chs(obj.message)

\* obj.MarshalBinary()
MarshalBinary(obj) == prependHeader(obj.kind, MarshalText(obj))

\* object.Marshal: the data, the Id (sha1.Sum(data)), the error
Marshal(obj) ==
    IF obj.kind \notin TypeNames
    THEN [data |-> <<>>, id |-> <<>>, err |-> ErrTypeError]
    ELSE [data |-> MarshalBinary(obj), id |-> MarshalBinary(obj),
          err |-> Nil]

ErrLength == "object: expected length"
ErrExpectedType == "object: expected type"
PanicNilMap == "panic: assignment to entry in nil map"

\* fmt.Fscanf(buf, "%s %d\x00", &bufType, &length): the header is well
\* formed
HeaderScans(data) ==
    /\ Len(data) >= 4
    /\ data[1].t = "c" /\ data[1].c \in TypeNames
    /\ IsCh(data, 2, " ")
    /\ IsTok(data, 3, "num")
    /\ IsCh(data, 4, NUL)

\* stripHeader
stripHeader(objType, data) ==
    IF ~HeaderScans(data) THEN [err |-> ErrScan, data |-> <<>>]
    ELSE IF data[1].c # objType
    THEN [err |-> ErrExpectedType, data |-> <<>>]
    ELSE IF data[3].n # Len(data) - 4
    THEN [err |-> ErrLength, data |-> <<>>]
    ELSE [err |-> Nil, data |-> SubSeq(data, 5, Len(data))]

\* ss.Token(false, p) of getToken: the index after the longest run from i
\* of bytes not in delimset
RECURSIVE TokenEnd(_, _, _)
TokenEnd(buf, i, delimset) ==
    IF i > Len(buf) \/ buf[i].t # "c" \/ buf[i].c \in delimset THEN i
    ELSE TokenEnd(buf, i + 1, delimset)

\* strings.Trim(s, trimset)
RECURSIVE Trim(_, _)
Trim(str, trimset) ==
    IF str = <<>> THEN str
    ELSE IF str[1] \in trimset THEN Trim(Tail(str), trimset)
    ELSE IF str[Len(str)] \in trimset
    THEN Trim(SubSeq(str, 1, Len(str) - 1), trimset)
    ELSE str

SafeDelims == {NUL, "\n", "<", ">"}
SafeTrims == {" ", ".", ",", ":", ";", "<", ">", "\"", "'"}

\* Signature.Scan at buf[i]: "%s<%s> %d %05d" with the two safeStrings,
\* then offset = (offset/100)*60*60 + (offset%100)*60.  next is the index
\* after the signature
ScanSignature(buf, i) ==
    LET j == TokenEnd(buf, i, SafeDelims)
        k == TokenEnd(buf, j + 1, SafeDelims)
        v == IF buf[k + 4].c = "-" THEN -buf[k + 4].n ELSE buf[k + 4].n
    IN IF /\ IsCh(buf, j, "<")
          /\ IsCh(buf, k, ">")
          /\ IsCh(buf, k + 1, " ")
          /\ IsTok(buf, k + 2, "num")
          /\ IsCh(buf, k + 3, " ")
          /\ IsTok(buf, k + 4, "zone")
       THEN [err |-> Nil, next |-> k + 5,
             sig |-> [name |-> Trim(Strs(SubSeq(buf, i, j - 1)), SafeTrims),
                      email |-> Trim(Strs(SubSeq(buf, j + 1, k - 1)),
                                     SafeTrims),
                      unix |-> buf[k + 2].n,
                      offset |-> GoDiv(v, 100) * 3600 + GoRem(v, 100) * 60]]
       ELSE [err |-> ErrScan, next |-> i, sig |-> NoSignature]

\* The loop of Commit.UnmarshalText over the "parent %s\n" lines from
\* buf[i]: the parents and the index after them
RECURSIVE ScanParents(_, _)
ScanParents(buf, i) ==
    IF /\ IsCh(buf, i, "parent") /\ IsCh(buf, i + 1, " ")
       /\ IsTok(buf, i + 2, "id") /\ IsCh(buf, i + 3, "\n")
    THEN LET r == ScanParents(buf, i + 4)
         IN [parent |-> <<buf[i + 2].n>> \o r.parent, next |-> r.next]
    ELSE [parent |-> <<>>, next |-> i]

\* Commit.UnmarshalText
CommitUnmarshalText(text) ==
    IF ~(/\ IsCh(text, 1, "tree") /\ IsCh(text, 2, " ")
         /\ IsTok(text, 3, "id") /\ IsCh(text, 4, "\n"))
    THEN [err |-> ErrScan, obj |-> NoObject]
    ELSE LET ps == ScanParents(text, 5)
             i == ps.next
         IN IF ~(IsCh(text, i, "author") /\ IsCh(text, i + 1, " "))
            THEN [err |-> ErrScan, obj |-> NoObject]
            ELSE LET a == ScanSignature(text, i + 2)
                     j == a.next
                 IN IF \/ a.err # Nil
                       \/ ~(/\ IsCh(text, j, "\n")
                            /\ IsCh(text, j + 1, "committer")
                            /\ IsCh(text, j + 2, " "))
                    THEN [err |-> ErrScan, obj |-> NoObject]
                    ELSE LET c == ScanSignature(text, j + 3)
                             k == c.next
                         IN IF \/ c.err # Nil
                               \/ ~(IsCh(text, k, "\n")
                                    /\ IsCh(text, k + 1, "\n"))
                            THEN [err |-> ErrScan, obj |-> NoObject]
                            ELSE [err |-> Nil,
                                  obj |-> Commit(text[3].n, ps.parent, a.sig,
                                             c.sig,
                                             Strs(SubSeq(text, k + 2,
                                                         Len(text))))]

\* Tag.UnmarshalText; the tag name is read with %s, up to white space
TagUnmarshalText(text) ==
    IF ~(/\ IsCh(text, 1, "object") /\ IsCh(text, 2, " ")
         /\ IsTok(text, 3, "id") /\ IsCh(text, 4, "\n")
         /\ IsCh(text, 5, "type") /\ IsCh(text, 6, " ")
         /\ IsTok(text, 7, "c") /\ text[7].c \in TypeNames
         /\ IsCh(text, 8, "\n")
         /\ IsCh(text, 9, "tag") /\ IsCh(text, 10, " "))
    THEN [err |-> ErrScan, obj |-> NoObject]
    ELSE LET i == TokenEnd(text, 11, {" ", "\n", "\t", "\r"})
         IN IF ~(/\ i > 11 /\ IsCh(text, i, "\n")
                 /\ IsCh(text, i + 1, "tagger") /\ IsCh(text, i + 2, " "))
            THEN [err |-> ErrScan, obj |-> NoObject]
            ELSE LET g == ScanSignature(text, i + 3)
                     k == g.next
                 IN IF \/ g.err # Nil
                       \/ ~(IsCh(text, k, "\n") /\ IsCh(text, k + 1, "\n"))
                    THEN [err |-> ErrScan, obj |-> NoObject]
                    ELSE [err |-> Nil,
                          obj |-> Tag(text[3].n, text[7].c,
                                      Strs(SubSeq(text, 11, i - 1)), g.sig,
                                      Strs(SubSeq(text, k + 2, Len(text))))]

\* Tree.UnmarshalBinary after stripHeader, on the Tree that New returned,
\* which is new(Tree): a pointer to a nil map.  The loop scans
\* "%o %s\x00" and the Id of the first entry and assigns t[name], which
\* panics; without entries nothing is assigned
TreeUnmarshal(body) ==
    IF body = <<>> THEN [err |-> Nil, obj |-> Tree({})]
    ELSE LET i == TokenEnd(body, 3, {NUL, "\n", "/"})
         IN IF /\ IsTok(body, 1, "num") /\ IsCh(body, 2, " ")
               /\ IsCh(body, i, NUL) /\ IsTok(body, i + 1, "id")
            THEN [err |-> PanicNilMap, obj |-> NoObject]
            ELSE [err |-> ErrScan, obj |-> NoObject]

\* object.Unmarshal: the type of the header, New(objType), and
\* obj.UnmarshalBinary(data)
Unmarshal(data) ==
    IF ~HeaderScans(data) THEN [err |-> ErrScan, obj |-> NoObject]
    ELSE LET body == stripHeader(data[1].c, data)
         IN IF body.err # Nil THEN [err |-> body.err, obj |-> NoObject]
            ELSE IF data[1].c = "blob"
            THEN [err |-> Nil, obj |-> Blob(Strs(body.data))]
            ELSE IF data[1].c = "tree" THEN TreeUnmarshal(body.data)
            ELSE IF data[1].c = "commit" THEN CommitUnmarshalText(body.data)
            ELSE TagUnmarshalText(body.data)

NoUnmarshal == [err |-> "pending", obj |-> NoObject]
NoCodec == [pc |-> "idle", obj |-> NoObject, data |-> <<>>, id |-> <<>>,
            back |-> NoUnmarshal, id2 |-> <<>>]

CodecInit == codec = NoCodec

\* data, id, err := object.Marshal(obj)
CodecMarshal(obj) ==
    /\ UNCHANGED libOthers
    /\ UNCHANGED <<b128, pf>>
    /\ codec.pc = "idle"
    /\ codec' = [codec EXCEPT !.pc = "marshalled", !.obj = obj,
                              !.data = Marshal(obj).data,
                              !.id = Marshal(obj).id]

\* obj2, err := object.Unmarshal(data); the goroutine is gone if that
\* panics
CodecUnmarshal ==
    /\ UNCHANGED libOthers
    /\ UNCHANGED <<b128, pf>>
    /\ codec.pc = "marshalled"
    /\ \E back \in {Unmarshal(codec.data)} :
           codec' = [codec EXCEPT !.back = back,
                                  !.pc = IF back.err = PanicNilMap
                                         THEN "panicked"
                                         ELSE "unmarshalled"]

\* id2, err := object.Hash(obj2)
CodecHash ==
    /\ UNCHANGED libOthers
    /\ UNCHANGED <<b128, pf>>
    /\ codec.pc = "unmarshalled"
    /\ codec.back.err = Nil
    /\ codec' = [codec EXCEPT !.pc = "hashed",
                              !.id2 = Marshal(codec.back.obj).id]

(***************************************************************************)
(* packfile: Writer and Reader                                             *)
(*                                                                         *)
(* The data of an object (its binary representation without the header)    *)
(* is a sequence of blocks of maxInsertLen bytes each; two blocks are      *)
(* equal, or have no more than six bytes in a row in common.  An object is *)
(* its type and its data, and SHA-1 has no collisions: the Id of an object *)
(* is the object, the checksum of a stream is the stream.                  *)
(***************************************************************************)
maxInsertLen == 127
PackObject(kind, data) == [kind |-> kind, data |-> data]
NoPackObject == PackObject("", <<>>)
\* marshalObj, hashObj
marshalObj(obj) == obj.data
hashObj(objType, data) == PackObject(objType, data)
DataLen(data) == maxInsertLen * Len(data)

\* The number of bytes putBase128LE writes for x
Base128Len(x) == IF x < 128 THEN 1 ELSE IF x < 16384 THEN 2 ELSE 3
\* The number of bytes putUvarintMask writes for x: its non-zero bytes
UvarintMaskLen(x) ==
    (IF x % 256 # 0 THEN 1 ELSE 0)
    + (IF (x \div 256) % 256 # 0 THEN 1 ELSE 0)
    + (IF (x \div 65536) % 256 # 0 THEN 1 ELSE 0)

\* The number of blocks result and base have in common from their start
RECURSIVE CommonPrefix(_, _)
CommonPrefix(result, base) ==
    IF result = <<>> \/ base = <<>> \/ result[1] # base[1] THEN 0
    ELSE 1 + CommonPrefix(Tail(result), Tail(base))
\* s[m:]
SliceFrom(seq, m) == SubSeq(seq, m + 1, Len(seq))

\* The instructions of computeDelta: while both slices hold a window, the
\* longest common substring of the two windows is the window (a copy,
\* extended while the bytes agree) or too short to copy (the window of
\* result is inserted, and both slices move on by a window); then what is
\* left of result is inserted
RECURSIVE deltaLoop(_, _, _)
deltaLoop(result, base, baseOff) ==
    IF result = <<>> THEN <<>>
    ELSE IF base = <<>> \/ result[1] # base[1]
    THEN <<[op |-> "insert", off |-> 0, len |-> maxInsertLen,
            data |-> <<result[1]>>]>>
         \o deltaLoop(Tail(result), IF base = <<>> THEN base ELSE Tail(base),
                      baseOff + maxInsertLen)
    ELSE LET m == CommonPrefix(result, base)
         IN <<[op |-> "copy", off |-> baseOff, len |-> maxInsertLen * m,
                data |-> <<>>]>>
            \o deltaLoop(SliceFrom(result, m), SliceFrom(base, m),
                         baseOff + maxInsertLen * m)

\* computeDelta(result, base): the two lengths and the instructions
computeDelta(result, base) ==
    [baseLen |-> DataLen(base), resultLen |-> DataLen(result),
     ins |-> deltaLoop(result, base, 0)]

RECURSIVE InsLen(_)
InsLen(ins) ==
    IF ins = <<>> THEN 0
    ELSE (IF ins[1].op = "insert" THEN 1 + ins[1].len
          ELSE 1 + UvarintMaskLen(ins[1].off) + UvarintMaskLen(ins[1].len))
         + InsLen(Tail(ins))
\* len(delta)
DeltaLen(delta) ==
    Base128Len(delta.baseLen) + Base128Len(delta.resultLen)
    + InsLen(delta.ins)

ErrDelta == "packfile: delta does not apply cleanly"
ErrDeltaLength == "packfile: invalid length in delta object"
RECURSIVE applyIns(_, _)
applyIns(base, ins) ==
    IF ins = <<>> THEN <<>>
    ELSE (IF ins[1].op = "insert" THEN ins[1].data
          ELSE SubSeq(base, ins[1].off \div maxInsertLen + 1,
                      (ins[1].off + ins[1].len) \div maxInsertLen))
         \o applyIns(base, Tail(ins))
\* applyDelta(base, delta)
applyDelta(base, delta) ==
    IF delta.baseLen # DataLen(base) THEN [err |-> ErrDelta, data |-> <<>>]
    ELSE IF delta.resultLen # DataLen(applyIns(base, delta.ins))
    THEN [err |-> ErrDelta, data |-> <<>>]
    ELSE [err |-> Nil, data |-> applyIns(base, delta.ins)]

NoDelta == [baseLen |-> 0, resultLen |-> 0, ins |-> <<>>]
\* A record of the stream: an object of a standard type, or a refDelta
\* with the Id of its base
PlainRecord(kind, data) ==
    [type |-> kind, data |-> data, delta |-> NoDelta, base |-> NoPackObject]
DeltaRecord(delta, base) ==
    [type |-> "refDelta", data |-> <<>>, delta |-> delta, base |-> base]

ErrTooManyObjects == "packfile: too many objects"
PackKinds == {"commit", "tree", "blob", "tag"}
NoPrev == [k \in PackKinds |-> [set |-> FALSE, data |-> <<>>]]
NoWriter == [n |-> 0, prev |-> NoPrev]

\* Writer.WriteObject(obj): the Writer after it, the record written
WriteObject(w, obj) ==
    LET base == w.prev[obj.kind]
        delta == computeDelta(marshalObj(obj), base.data)
        w2 == [n |-> w.n - 1,
               prev |-> [w.prev EXCEPT ![obj.kind] =
                            [set |-> TRUE, data |-> marshalObj(obj)]]]
    IN IF w.n = 0 THEN [err |-> ErrTooManyObjects, w |-> w, recs |-> <<>>]
       ELSE IF base.set /\ DeltaLen(delta) < DataLen(marshalObj(obj))
       THEN [err |-> Nil, w |-> w2,
             recs |-> <<DeltaRecord(delta, hashObj(obj.kind, base.data))>>]
       ELSE [err |-> Nil, w |-> w2,
             recs |-> <<PlainRecord(obj.kind, marshalObj(obj))>>]

PanicTree == "panic: assignment to entry in nil map"
\* object.New(objType) and unmarshalObj(obj, data): a Tree is new(Tree),
\* and Tree.UnmarshalBinary assigns the entries it scans to that nil map
unmarshalObj(objType, data) ==
    IF objType = "tree" /\ data # <<>>
    THEN [err |-> PanicTree, obj |-> NoPackObject]
    ELSE [err |-> Nil, obj |-> PackObject(objType, data)]

NoPackReader == [n |-> 0, k |-> 0, repo |-> {}, got |-> <<>>, err |-> Nil]

\* Reader.ReadObject on the record rec: the Reader after it; the object
\* is appended to got and put to the Reader's repository
ReaderReadObject(rd, rec) ==
    IF rec.type = "refDelta"
    THEN IF rec.base \notin rd.repo
         THEN [rd EXCEPT !.n = @ - 1, !.k = @ + 1, !.err = ErrObjectNotExist]
         ELSE LET res == applyDelta(marshalObj(rec.base), rec.delta)
                  un == unmarshalObj(rec.base.kind, res.data)
              IN IF res.err # Nil
                 THEN [rd EXCEPT !.n = @ - 1, !.k = @ + 1, !.err = res.err]
                 ELSE IF un.err # Nil
                 THEN [rd EXCEPT !.n = @ - 1, !.k = @ + 1, !.err = un.err]
                 ELSE [rd EXCEPT !.n = @ - 1, !.k = @ + 1,
                                 !.repo = @ \cup {un.obj},
                                 !.got = Append(@, un.obj)]
    ELSE LET un == unmarshalObj(rec.type, rec.data)
         IN IF un.err # Nil
            THEN [rd EXCEPT !.n = @ - 1, !.k = @ + 1, !.err = un.err]
            ELSE [rd EXCEPT !.n = @ - 1, !.k = @ + 1,
                            !.repo = @ \cup {un.obj},
                            !.got = Append(@, un.obj)]

NoPf == [pc |-> "idle", objs |-> <<>>, w |-> NoWriter, recs |-> <<>>,
         nobjects |-> 0, sum |-> <<>>, altered |-> FALSE,
         rd |-> NoPackReader, closeErr |-> "pending"]

PfInit == pf = NoPf

\* NewWriter(w, n) for the objects objs, n = len(objs): the header
PfNewWriter(objs) ==
    /\ UNCHANGED libOthers
    /\ UNCHANGED <<b128, codec>>
    /\ pf.pc = "idle"
    /\ pf' = [NoPf EXCEPT !.pc = "writing", !.objs = objs,
                          !.w = [NoWriter EXCEPT !.n = Len(objs)],
                          !.nobjects = Len(objs)]

\* w.WriteObject of the next object
PfWriteObject ==
    /\ UNCHANGED libOthers
    /\ UNCHANGED <<b128, codec>>
    /\ pf.pc = "writing"
    /\ pf.w.n > 0
    /\ \E res \in {WriteObject(pf.w, pf.objs[Len(pf.recs) + 1])} :
           pf' = [pf EXCEPT !.w = res.w, !.recs = @ \o res.recs]

\* w.Close(): the footer is the checksum of what was written
PfWriterClose ==
    /\ UNCHANGED libOthers
    /\ UNCHANGED <<b128, codec>>
    /\ pf.pc = "writing"
    /\ pf.w.n = 0
    /\ pf' = [pf EXCEPT !.pc = "written",
                        !.sum = <<pf.nobjects>> \o pf.recs]

\* A byte of the stream before the footer is altered: a block of the
\* body of a record becomes another block
PfAlter(k, block) ==
    /\ UNCHANGED libOthers
    /\ UNCHANGED <<b128, codec>>
    /\ pf.pc = "written"
    /\ ~pf.altered
    /\ k \in 1..Len(pf.recs)
    /\ pf.recs[k].type # "refDelta"
    /\ pf.recs[k].data # <<>>
    /\ pf.recs[k].data[1] # block
    /\ pf' = [pf EXCEPT !.altered = TRUE,
                        !.recs[k].data[1] = block]

\* NewReader(r, nil): the header is read, a temporary repository is made
PfNewReader ==
    /\ UNCHANGED libOthers
    /\ UNCHANGED <<b128, codec>>
    /\ pf.pc = "written"
    /\ pf' = [pf EXCEPT !.pc = "reading",
                        !.rd = [NoPackReader EXCEPT !.n = pf.nobjects]]

\* r.ReadObject() while r.Len() > 0 and no error; a panic ends the
\* goroutine
PfReadObject ==
    /\ UNCHANGED libOthers
    /\ UNCHANGED <<b128, codec>>
    /\ pf.pc = "reading"
    /\ pf.rd.n > 0
    /\ pf.rd.err = Nil
    /\ \E rd \in {ReaderReadObject(pf.rd, pf.recs[pf.rd.k + 1])} :
           pf' = [pf EXCEPT !.rd = rd,
                            !.pc = IF rd.err = PanicTree THEN "panicked"
                                   ELSE "reading"]

\* r.Close(): the footer is compared with the checksum of what was read
PfReaderClose ==
    /\ UNCHANGED libOthers
    /\ UNCHANGED <<b128, codec>>
    /\ pf.pc = "reading"
    /\ pf.rd.n = 0
    /\ pf.rd.err = Nil
    /\ pf' = [pf EXCEPT !.pc = "closed",
                        !.closeErr = IF pf.sum = <<pf.nobjects>> \o pf.recs
                                     THEN Nil ELSE ErrChecksum]

(***************************************************************************)
(* repository/appengine: one ref, held as an entity of the datastore (ds,  *)
(* ZeroID when there is none) and as an item of memcache (mc, the empty    *)
(* set when there is none).  Every call of memcache and of the datastore   *)
(* is a step.  Inside datastore.RunInTransaction a Put or Delete is kept   *)
(* (wr) until the commit, which fails when another transaction committed   *)
(* a write to the ref since this attempt began (dirty); the function is    *)
(* then run again, MaxAttempts times in all.  memcache takes no part in    *)
(* the transaction.  The ref exists at the start.                          *)
(***************************************************************************)
MaxAttempts == 2

ErrNoSuchEntity == "datastore: no such entity"
ErrConcurrentTransaction == "datastore: concurrent transaction"

mapErr(err) == IF err = ErrNoSuchEntity THEN ErrNotExist ELSE err
mapRefErr(err) == IF err = ErrNoSuchEntity THEN ErrRefNotExist ELSE err

NoGaeCall ==
    [op |-> "none", pc |-> "idle", oldID |-> ZeroID, newID |-> ZeroID,
     id |-> ZeroID, err |-> Nil, wr |-> "none", dirty |-> FALSE,
     attempts |-> 0]

GaeInit ==
    gae = [ds |-> 1, mc |-> {}, objects |-> Ids,
           calls |-> [p \in Procs |-> NoGaeCall]]

GaeSet(p, c) ==
    /\ UNCHANGED extOthers
    /\ UNCHANGED <<crd, dlt, lk>>
    /\ gae' = [gae EXCEPT !.calls[p] = c]

\* f returned err, or the commit failed for good: RunInTransaction
\* returns the error and nothing is written to the datastore
GaeFail(c, err) == [c EXCEPT !.pc = "done", !.err = err, !.wr = "none"]

\* r.get returned: GetRef returns what it got, the function of UpdateRef
\* goes on
AfterGet(c, id, err) ==
    IF c.op = "GetRef"
    THEN [c EXCEPT !.pc = "done", !.id = id, !.err = mapRefErr(err)]
    ELSE [c EXCEPT !.pc = "compare", !.id = id, !.err = err]

GaeCallGetRef(p) ==
    /\ gae.calls[p].pc = "idle"
    /\ GaeSet(p, [NoGaeCall EXCEPT !.op = "GetRef", !.pc = "mc_get"])

GaeCallUpdateRef(p, oldID, newID) ==
    /\ gae.calls[p].pc = "idle"
    /\ GaeSet(p, [NoGaeCall EXCEPT !.op = "UpdateRef", !.pc = "begin",
                                   !.oldID = oldID, !.newID = newID])

\* RunInTransaction runs the function (again)
GaeBegin(p) ==
    /\ gae.calls[p].pc = "begin"
    /\ GaeSet(p, [gae.calls[p] EXCEPT !.pc = "mc_get", !.id = ZeroID,
                                      !.err = Nil, !.wr = "none",
                                      !.dirty = FALSE, !.attempts = @ + 1])

\* get: memcache.Gob.Get
GaeMemcacheGet(p) ==
    /\ gae.calls[p].pc = "mc_get"
    /\ \E c \in {gae.calls[p]} :
          IF gae.mc = {}
          THEN GaeSet(p, [c EXCEPT !.pc = "ds_get"])
          ELSE \E id \in gae.mc : GaeSet(p, AfterGet(c, id, Nil))

\* get: datastore.Get
GaeDatastoreGet(p) ==
    /\ gae.calls[p].pc = "ds_get"
    /\ \E c \in {gae.calls[p]} :
          IF gae.ds = ZeroID
          THEN GaeSet(p, AfterGet(c, c.id, mapErr(ErrNoSuchEntity)))
          ELSE GaeSet(p, [c EXCEPT !.pc = "mc_set", !.id = gae.ds])

\* get: memcache.Gob.Set of what datastore.Get returned
GaeMemcacheSet(p) ==
    /\ gae.calls[p].pc = "mc_set"
    /\ UNCHANGED extOthers
    /\ UNCHANGED <<crd, dlt, lk>>
    /\ \E c \in {gae.calls[p]} :
          gae' = [gae EXCEPT !.mc = {c.id},
                             !.calls[p] = AfterGet(c, c.id, Nil)]

\* UpdateRef: the function after tr.get, up to its next call
GaeCompare(p) ==
    /\ gae.calls[p].pc = "compare"
    /\ \E c \in {gae.calls[p]} :
          GaeSet(p,
            IF c.err # Nil /\ c.err # ErrNoSuchEntity
            THEN GaeFail(c, c.err)
            ELSE IF c.id # c.oldID
            THEN GaeFail(c, IF c.id = ZeroID THEN ErrRefNotExist
                            ELSE IF c.oldID = ZeroID THEN ErrRefExist
                            ELSE ErrRefMismatch)
            ELSE IF c.newID = ZeroID
            THEN (IF c.oldID = ZeroID THEN [c EXCEPT !.pc = "commit"]
                  ELSE [c EXCEPT !.pc = "mc_del"])
            ELSE [c EXCEPT !.pc = "get_object"])

\* UpdateRef: tr.GetObject(newID)
GaeGetObject(p) ==
    /\ gae.calls[p].pc = "get_object"
    /\ \E c \in {gae.calls[p]} :
          GaeSet(p, IF c.newID \in gae.objects
                    THEN [c EXCEPT !.pc = "ds_put"]
                    ELSE GaeFail(c, ErrNotExist))

\* put: datastore.Put
GaeDatastorePut(p) ==
    /\ gae.calls[p].pc = "ds_put"
    /\ GaeSet(p, [gae.calls[p] EXCEPT !.pc = "mc_put", !.wr = "put"])

\* put: memcache.Gob.Set of the new value
GaePutMemcacheSet(p) ==
    /\ gae.calls[p].pc = "mc_put"
    /\ UNCHANGED extOthers
    /\ UNCHANGED <<crd, dlt, lk>>
    /\ \E c \in {gae.calls[p]} :
          gae' = [gae EXCEPT !.mc = {c.newID},
                             !.calls[p] = [c EXCEPT !.pc = "commit"]]

\* del: memcache.Delete
GaeMemcacheDelete(p) ==
    /\ gae.calls[p].pc = "mc_del"
    /\ UNCHANGED extOthers
    /\ UNCHANGED <<crd, dlt, lk>>
    /\ gae' = [gae EXCEPT !.mc = {}, !.calls[p].pc = "ds_del"]

\* del: datastore.Delete
GaeDatastoreDelete(p) ==
    /\ gae.calls[p].pc = "ds_del"
    /\ GaeSet(p, [gae.calls[p] EXCEPT !.pc = "commit", !.wr = "del"])

InTransaction(c) ==
    c.op = "UpdateRef" /\ c.pc \notin {"idle", "begin", "done"}

\* RunInTransaction: the function returned nil and the transaction
\* commits, or fails and is tried again
GaeCommit(p) ==
    /\ gae.calls[p].pc = "commit"
    /\ UNCHANGED extOthers
    /\ UNCHANGED <<crd, dlt, lk>>
    /\ \E c \in {gae.calls[p]} :
          IF c.dirty
          THEN gae' = [gae EXCEPT !.calls[p] =
                         IF c.attempts < MaxAttempts
                         THEN [c EXCEPT !.pc = "begin"]
                         ELSE GaeFail(c, ErrConcurrentTransaction)]
          ELSE gae' = [gae EXCEPT
                         !.ds = CASE c.wr = "put" -> c.newID
                                  [] c.wr = "del" -> ZeroID
                                  [] OTHER -> @,
                         !.calls = [q \in Procs |->
                            IF q = p THEN [c EXCEPT !.pc = "done"]
                            ELSE IF c.wr # "none" /\ InTransaction(@[q])
                            THEN [@[q] EXCEPT !.dirty = TRUE]
                            ELSE @[q]]]

\* GetRef or UpdateRef returns
GaeReturn(p) ==
    /\ gae.calls[p].pc = "done"
    /\ GaeSet(p, NoGaeCall)

(***************************************************************************)
(* repository/mem: the locks.  Every method of repo is here the sequence   *)
(* of lock operations it performs, whatever the data; the paths of         *)
(* UpdateRef that return before r.GetObject(newID) are methods of their    *)
(* own.  A sync.RWMutex is [writer, readers]: Lock() first excludes other  *)
(* writers and new readers (writer is set), then waits for the readers     *)
(* that hold the lock to leave; RLock() waits while a writer holds the     *)
(* lock or waits for it.                                                   *)
(***************************************************************************)
LockNames == {"objectsLock", "refsLock", "HEADLock"}

Exclusive(l) == <<[do |-> "Lock", on |-> l], [do |-> "Wait", on |-> l]>>
Shared(l) == <<[do |-> "RLock", on |-> l]>>
Release(l) == <<[do |-> "Unlock", on |-> l]>>
RRelease(l) == <<[do |-> "RUnlock", on |-> l]>>

\* Mutant: PutObject looks a ref up while it holds objectsLock
LockSteps_PutReadsRefs(m) ==
    CASE m \in {"GetObject"} ->
           Shared("objectsLock") \o RRelease("objectsLock")
      [] m = "PutObject" ->
           Exclusive("objectsLock") \o Shared("refsLock")
           \o RRelease("refsLock") \o Release("objectsLock")
      [] m \in {"GetRef", "ListRefs"} ->
           Shared("refsLock") \o RRelease("refsLock")
      [] m = "UpdateRef" ->
           Exclusive("refsLock") \o Shared("objectsLock")
           \o RRelease("objectsLock") \o Release("refsLock")
      [] m = "UpdateRef: no GetObject" ->
           Exclusive("refsLock") \o Release("refsLock")
      [] m = "GetHEAD" ->
           Shared("HEADLock") \o RRelease("HEADLock")
      [] m = "SetHEAD" ->
           Exclusive("HEADLock") \o Release("HEADLock")
      [] OTHER -> <<>>

\* The lock operations of each method of repo, in order (the deferred
\* unlock last)
LockSteps(m) ==
    CASE m = "GetObject" ->
           Shared("objectsLock") \o RRelease("objectsLock")
      [] m = "PutObject" ->
           Exclusive("objectsLock") \o Release("objectsLock")
      [] m = "GetRef" ->
           Shared("refsLock") \o RRelease("refsLock")
      [] m = "UpdateRef" ->
           Exclusive("refsLock") \o Shared("objectsLock")
           \o RRelease("objectsLock") \o Release("refsLock")
      [] m = "UpdateRef: no GetObject" ->
           Exclusive("refsLock") \o Release("refsLock")
      [] m = "ListRefs" ->
           Shared("refsLock") \o RRelease("refsLock")
      [] m = "GetHEAD" ->
           Shared("HEADLock") \o RRelease("HEADLock")
      [] m = "SetHEAD" ->
           Exclusive("HEADLock") \o Release("HEADLock")
      [] OTHER -> <<>>

Methods ==
    {"GetObject", "PutObject", "GetRef", "UpdateRef",
     "UpdateRef: no GetObject", "ListRefs", "GetHEAD", "SetHEAD"}

NoLk == [locks |-> [l \in LockNames |-> FreeLock],
         m |-> [p \in Procs |-> "none"],
         at |-> [p \in Procs |-> 0]]

LkInit == lk = NoLk

\* The lock operation the goroutine p is at
LkAt(p) == LockSteps(lk.m[p])[lk.at[p]]
LkRunning(p) == lk.at[p] >= 1 /\ lk.at[p] <= Len(LockSteps(lk.m[p]))

\* A goroutine calls the method m
LkCall(p, m) ==
    /\ UNCHANGED extOthers
    /\ UNCHANGED <<crd, dlt, gae>>
    /\ lk.at[p] = 0
    /\ lk' = [lk EXCEPT !.m[p] = m, !.at[p] = 1]

\* Lock() and RLock(): the goroutine goes on once the lock lets it
LkAcquire(p) ==
    /\ UNCHANGED extOthers
    /\ UNCHANGED <<crd, dlt, gae>>
    /\ LkRunning(p)
    /\ LkAt(p).do \in {"Lock", "Wait", "RLock"}
    /\ \E i \in {LkAt(p)} :
          /\ CASE i.do = "Lock" -> lk.locks[i.on].writer = None
                [] i.do = "Wait" -> lk.locks[i.on].readers = {}
                [] i.do = "RLock" -> CanRLock(lk.locks[i.on])
          /\ lk' = [lk EXCEPT
                      !.at[p] = @ + 1,
                      !.locks[i.on] =
                          CASE i.do = "Lock" -> [@ EXCEPT !.writer = p]
                            [] i.do = "Wait" -> @
                            [] i.do = "RLock" ->
                                 [@ EXCEPT !.readers = @ \cup {p}]]

\* Unlock() and RUnlock()
LkRelease(p) ==
    /\ UNCHANGED extOthers
    /\ UNCHANGED <<crd, dlt, gae>>
    /\ LkRunning(p)
    /\ LkAt(p).do \in {"Unlock", "RUnlock"}
    /\ \E i \in {LkAt(p)} :
          lk' = [lk EXCEPT
                   !.at[p] = @ + 1,
                   !.locks[i.on] =
                       IF i.do = "Unlock" THEN [@ EXCEPT !.writer = None]
                       ELSE [@ EXCEPT !.readers = @ \ {p}]]

\* The method returns
LkReturn(p) ==
    /\ UNCHANGED extOthers
    /\ UNCHANGED <<crd, dlt, gae>>
    /\ lk.m[p] # "none"
    /\ lk.at[p] > Len(LockSteps(lk.m[p]))
    /\ lk' = [lk EXCEPT !.m[p] = "none", !.at[p] = 0]

(***************************************************************************)
(* packfile: applyDelta on bytes.  A byte is a number in 0..255, a slice   *)
(* is the sequence of its bytes.  base is a slice of the array that        *)
(* marshalObj got from append(header, data...): pad stands for the bytes   *)
(* of that array between len(base) and cap(base), which the Go runtime     *)
(* decides.  delta is the slice ReadObject made with make([]byte, size),   *)
(* whose capacity is its length.                                           *)
(***************************************************************************)
ErrSliceBounds == "runtime error: slice bounds out of range"

\* s[a:b] of Go, and copy(dst[j:], src) as the bytes dst holds up to the
\* new j: copy stops at the end of dst
GoSlice(s, a, b) == SubSeq(s, a + 1, b)
CopyInto(out, src, room) ==
    IF Len(out) + Len(src) <= room THEN out \o src
    ELSE SubSeq(out \o src, 1, room)

\* binary.Uvarint(buf): the value and the number of bytes read; n = 0 when
\* buf is too small, n < 0 on overflow
RECURSIVE uvarintLoop(_, _, _, _)
uvarintLoop(buf, k, x, mul) ==
    IF k > Len(buf) THEN [x |-> 0, n |-> 0]
    ELSE IF buf[k] < 128
    THEN IF k > MaxVarintLen64 \/ (k = MaxVarintLen64 /\ buf[k] > 1)
         THEN [x |-> 0, n |-> 0 - k]
         ELSE [x |-> x + buf[k] * mul, n |-> k]
    ELSE uvarintLoop(buf, k + 1, x + (buf[k] - 128) * mul, mul * 128)

base128LE(buf) == uvarintLoop(buf, 1, 0, 1)

\* uvarintMask(buf, mask): the bytes whose bit is set in mask, the least
\* significant first; n = -1 when buf is too small
MaskBit(mask, i) == (mask \div (2 ^ i)) % 2 = 1
RECURSIVE uvarintMaskLoop(_, _, _, _, _)
uvarintMaskLoop(buf, mask, i, x, n) ==
    IF i = 8 THEN [x |-> x, n |-> n]
    ELSE IF MaskBit(mask, i)
    THEN IF n >= Len(buf) THEN [x |-> 0, n |-> 0 - 1]
         ELSE uvarintMaskLoop(buf, mask, i + 1,
                              x + buf[n + 1] * (256 ^ i), n + 1)
    ELSE uvarintMaskLoop(buf, mask, i + 1, x, n)

uvarintMask(buf, mask) == uvarintMaskLoop(buf, mask, 0, 0, 0)

\* result = make([]byte, resultLen) with the bytes out written to it
ZeroFill(out, resultLen) == [k \in 1..resultLen |->
                               IF k <= Len(out) THEN out[k] ELSE 0]

\* The loop of applyDelta from delta[i] on, out being result[:j] and mem
\* the array of base up to its capacity.  A slice expression out of range
\* panics with a runtime.Error, which the deferred function returns as err
RECURSIVE applyLoop(_, _, _, _, _)
applyLoop(mem, delta, resultLen, i, out) ==
    IF i >= Len(delta)
    THEN IF resultLen # Len(out) THEN [result |-> <<>>, err |-> ErrDelta]
         ELSE [result |-> out, err |-> Nil]
    ELSE LET opcode == delta[i + 1]
             panic == [result |-> ZeroFill(out, resultLen),
                       err |-> ErrSliceBounds]
             badLen == [result |-> <<>>, err |-> ErrDeltaLength]
         IN IF opcode \div 128 = 0
            THEN LET n == opcode
                 IN IF i + 1 + n > Len(delta) THEN panic
                    ELSE applyLoop(mem, delta, resultLen, i + 1 + n,
                                   CopyInto(out,
                                            GoSlice(delta, i + 1, i + 1 + n),
                                            resultLen))
            ELSE LET off == uvarintMask(GoSlice(delta, i + 1, Len(delta)),
                                        opcode % 16)
                 IN IF off.n < 0 THEN badLen
                    ELSE LET ln == uvarintMask(
                                      GoSlice(delta, i + 1 + off.n,
                                              Len(delta)),
                                      (opcode % 128) \div 16)
                             len == IF ln.x = 0 THEN 65536 ELSE ln.x
                         IN IF ln.n < 0 THEN badLen
                            ELSE IF off.x + len > Len(mem) THEN panic
                            ELSE applyLoop(mem, delta, resultLen,
                                           i + 1 + off.n + ln.n,
                                           CopyInto(out,
                                                    GoSlice(mem, off.x,
                                                            off.x + len),
                                                    resultLen))

\* applyDelta(base, delta), the array of base holding pad after base
applyDeltaBytes(base, pad, delta) ==
    LET b == base128LE(delta)
        r == base128LE(GoSlice(delta, b.n, Len(delta)))
    IN IF b.n <= 0 THEN [result |-> <<>>, err |-> ErrDeltaLength]
       ELSE IF b.x # Len(base) THEN [result |-> <<>>, err |-> ErrDelta]
       ELSE IF r.n <= 0 THEN [result |-> <<>>, err |-> ErrDeltaLength]
       ELSE applyLoop(base \o pad, delta, r.x, b.n + r.n, <<>>)

NoDlt == [pc |-> "idle", base |-> <<>>, pad |-> <<>>, delta |-> <<>>,
          result |-> <<>>, err |-> Nil]

DltInit == dlt = NoDlt

\* result, err := applyDelta(base, delta)
DltApply(base, pad, delta) ==
    /\ UNCHANGED extOthers
    /\ UNCHANGED <<crd, gae, lk>>
    /\ dlt.pc = "idle"
    /\ \E o \in {applyDeltaBytes(base, pad, delta)} :
           dlt' = [pc |-> "done", base |-> base, pad |-> pad,
                   delta |-> delta, result |-> o.result, err |-> o.err]

(***************************************************************************)
(* packfile: a Reader whose client reads on after an error.  The doc       *)
(* comment of ReadObject lists the errors after which "it is safe to       *)
(* continue reading objects"; the client modelled here calls ReadObject    *)
(* again after each of them and stops at any other error.                  *)
(***************************************************************************)
\* The errors the doc comment of ReadObject lists
SafeErrs ==
    {ErrBadOffset, ErrObjectNotExist, ErrDelta, ErrDeltaLength, ErrType}


NoCrd ==
    [pc |-> "idle", pack |-> NoPack, objs |-> {}, rd |-> NoReader,
     err |-> Nil, calls |-> <<>>]

CrdInit == crd = NoCrd

\* r, err := packfile.NewReader(stream, repo), the stream holding pack
\* and the repository objs
CrdNewReader(pack, objs) ==
    /\ UNCHANGED extOthers
    /\ UNCHANGED <<dlt, gae, lk>>
    /\ crd.pc = "idle"
    /\ \E o \in {NewReader(pack)} :
           crd' = [crd EXCEPT !.pc = IF o.err = Nil THEN "open" ELSE "failed",
                              !.pack = pack, !.objs = objs, !.rd = o.rd,
                              !.err = o.err]

\* obj, err := r.ReadObject() while r.Len() > 0, the stream standing at
\* r.r.Tell(); calls records the record the call began at, the position
\* and the count it found, and the error it returned
CrdReadObject ==
    /\ UNCHANGED extOthers
    /\ UNCHANGED <<dlt, gae, lk>>
    /\ crd.pc = "open"
    /\ crd.rd.n > 0
    /\ crd.err \in SafeErrs \cup {Nil}
    /\ RecAt(crd.pack, crd.rd.pos) # 0
    /\ \E k \in {RecAt(crd.pack, crd.rd.pos)} :
       \E o \in {ReadObject(crd.pack, k, crd.rd, crd.objs)} :
           crd' = [crd EXCEPT
                     !.rd = o.rd, !.err = o.err,
                     !.objs = PutObject(@, o.put),
                     !.calls = Append(@, [k |-> k, pos |-> crd.rd.pos,
                                          n |-> crd.rd.n, err |-> o.err])]

\* err := r.Close() once r.Len() = 0
CrdClose ==
    /\ UNCHANGED extOthers
    /\ UNCHANGED <<dlt, gae, lk>>
    /\ crd.pc = "open"
    /\ crd.rd.n = 0
    /\ crd.err \in SafeErrs \cup {Nil}
    /\ \E o \in {Close(crd.pack, RecAt(crd.pack, crd.rd.pos), crd.rd)} :
           crd' = [crd EXCEPT !.pc = "closed", !.rd = o.rd, !.err = o.err]

(***************************************************************************)
(* Specifications                                                          *)
(***************************************************************************)
Init == MemInit /\ PktInit /\ RecvInit /\ UpInit /\ AdvInit /\ B128Init /\ CodecInit /\ PfInit /\ CrdInit /\ DltInit /\ GaeInit /\ LkInit

\* The in-memory repository used by one goroutine, every refname of the
\* model
Next == MemNext({"p1"}, RefNames)
Spec == Init /\ [][Next]_vars

\* The in-memory repository used by two goroutines racing on one refname
ConcNames == {RefX, RefLock}
ConcNext == MemNext(Procs, ConcNames)
SpecConc == Init /\ [][ConcNext]_vars

\* The in-memory repository with its HEAD, one refname, one goroutine
HeadNames == {RefMaster, RefX, RefLock}
RepoNext ==
    \/ MemNext({"p1"}, {RefX})
    \/ \E name \in HeadNames : SetHEAD(name)
SpecRepo == Init /\ [][RepoNext]_vars

\* AdvertiseRefs on every repository of two refnames whose refs hold
\* stored objects, HEAD being set meanwhile
RepoNames == {RefX, RefY}
AdvertiseInit ==
    /\ objects \in SUBSET Ids
    /\ refs \in UNION {[N -> objects] : N \in SUBSET RepoNames}
    /\ HEAD \in HeadNames
    /\ refsLock = FreeLock
    /\ objectsLock = FreeLock
    /\ pc = [p \in Procs |-> "idle"]
    /\ call = [p \in Procs |-> NoCall]
    /\ ret = [p \in Procs |-> NoRet]
    /\ before = [p \in Procs |-> <<>>]
    /\ last = [n \in RefNames |-> NoWin]
    /\ tick = [n \in RefNames |-> FALSE]
    /\ PktInit /\ RecvInit /\ UpInit /\ AdvInit /\ B128Init /\ CodecInit /\ PfInit
    /\ CrdInit /\ DltInit /\ GaeInit /\ LkInit
AdvertiseNext ==
    \/ \E name \in HeadNames : SetHEAD(name)
    \/ AdvListRefs
    \/ AdvWrite
SpecAdvertise == AdvertiseInit /\ [][AdvertiseNext]_vars

\* The base128 codecs on the numbers whose base-128 digits are among
\* 0, 1 and 127
B128Digits == {0, 1, 127}
B128Inputs ==
    {x \in [1..MaxVarintLen64 -> B128Digits] : x[MaxVarintLen64] <= 1}
B128Next ==
    \/ \E x \in (IF b128.pc = "idle" THEN B128Inputs ELSE {}) : B128Write(x)
    \/ B128Read
SpecBase128 == Init /\ [][B128Next]_vars

\* ReadMBE on byte sequences of up to MaxMBEBytes bytes: a first digit, a
\* run of equal digits, a last digit with bit 7 set, and a final byte
\* with bit 7 clear, or no final byte (the stream ends inside the number)
MaxMBEBytes == 11
MBEDigits == {0, 126, 127}
MBEStreams ==
    {[i \in 1..m |-> IF i = 1 THEN first + 128
                     ELSE IF i < m - 1 THEN fill + 128
                     ELSE IF i = m - 1 THEN lst + 128
                     ELSE IF cut THEN fill + 128 ELSE final] :
        m \in 2..MaxMBEBytes, first \in {0, 1, 127}, fill \in MBEDigits,
        lst \in MBEDigits, final \in {0, 127}, cut \in BOOLEAN}
    \cup {<<final>> : final \in {0, 127}}
MBENext ==
    \E buf \in (IF b128.pc = "idle" THEN MBEStreams ELSE {}) : B128Decode(buf)
SpecMBE == Init /\ [][MBENext]_vars

\* Marshal, Unmarshal and Hash on objects of the four kinds
SigNames == {<<"A">>, <<"A", " ", "B">>}
SigDates == {[unix |-> 0, offset |-> 0], [unix |-> 5, offset |-> 7200],
             [unix |-> 5, offset |-> -19800], [unix |-> 7, offset |-> -1800]}
Signatures ==
    {[name |-> nm, email |-> <<"a", "@", "b">>, unix |-> d.unix,
      offset |-> d.offset] : nm \in SigNames, d \in SigDates}
Messages == {<<>>, <<"m">>, <<"m", "\n">>}
TreeEntries ==
    {[name |-> nm, mode |-> m, object |-> id] :
        nm \in {<<"a">>, <<"a", ".", "b">>}, m \in {ModeTree, ModeBlob},
        id \in {1, 2}}
CodecTrees ==
    {Tree(es) : es \in {E \in SUBSET TreeEntries :
                           \A e1, e2 \in E : e1.name = e2.name => e1 = e2}}
CodecBlobs == {Blob(d) : d \in {<<>>, <<"m">>, <<"m", "\n">>, <<NUL, "m">>}}
CodecCommits ==
    {Commit(1, ps, a, c, m) :
        ps \in {<<>>, <<1>>, <<1, 2>>}, a \in Signatures,
        c \in {[name |-> <<"A">>, email |-> <<"a", "@", "b">>, unix |-> 5,
                offset |-> 7200]},
        m \in Messages}
CodecTags ==
    {Tag(1, ty, <<"v", "1">>, g, m) :
        ty \in {"commit", "tag"}, g \in Signatures, m \in Messages}
CodecObjects == CodecBlobs \cup CodecTrees \cup CodecCommits \cup CodecTags
CodecNext ==
    \/ \E obj \in (IF codec.pc = "idle" THEN CodecObjects ELSE {}) :
           CodecMarshal(obj)
    \/ CodecUnmarshal
    \/ CodecHash
SpecObject == Init /\ [][CodecNext]_vars

\* A packfile written by a Writer and read by a Reader: up to MaxPackObjs
\* objects, of up to three blocks each
MaxPackObjs == 2
PackDatas == {<<>>, <<1>>, <<1, 2>>, <<1, 2, 3>>, <<1, 2, 4>>, <<4, 2, 3>>}
PackObjects ==
    {PackObject(kind, data) :
        kind \in {"blob", "commit", "tree"}, data \in PackDatas}
PackLists == UNION {[1..n -> PackObjects] : n \in 0..MaxPackObjs}
\* The block an altered block becomes: one no object written holds
AlteredBlocks == {9}
PfNext ==
    \/ \E objs \in (IF pf.pc = "idle" THEN PackLists ELSE {}) :
           PfNewWriter(objs)
    \/ PfWriteObject
    \/ PfWriterClose
    \/ \E k \in 1..MaxPackObjs, block \in AlteredBlocks : PfAlter(k, block)
    \/ PfNewReader
    \/ PfReadObject
    \/ PfReaderClose
SpecPackfile == Init /\ [][PfNext]_vars

\* A packfile Reader read to its end over packfiles of up to MaxPackRecs
\* records: whole objects, ofs-deltas with a good and with a bad offset,
\* ref-deltas on the first object, on a missing object and on no object,
\* and ref-deltas that do not apply
MaxPackRecs == 3
ReaderRecs ==
    {PObj(1, 2), PObj(2, 3), POfs(2, 3, 2), POfs(2, 3, 1), PRef(2, 3, 1),
     PRef(2, 2, ZeroID), PDelta(2, 3, 1, ErrDelta),
     PDelta(2, 2, 1, ErrDeltaLength), PBad(2)}
ReaderPacks ==
    {GoodPack(recs) :
        recs \in UNION {[1..m -> ReaderRecs] : m \in 1..MaxPackRecs}}
CrdNext ==
    \/ \E pack \in (IF crd.pc = "idle" THEN ReaderPacks ELSE {}),
          objs \in {{}, {1}} : CrdNewReader(pack, objs)
    \/ CrdReadObject
    \/ CrdClose
SpecReader == Init /\ [][CrdNext]_vars

\* applyDelta on bases of one and two bytes with no or one byte of spare
\* capacity, and on deltas that declare a base length of 1 or 2 and a
\* result length up to 3, with a body of up to MaxDeltaBody bytes out of
\* DeltaBytes: 0x00, 0x01 and 0x02 (inserts, or operands), 0x90 (a copy
\* with a length byte) and 0x91 (a copy with an offset and a length byte)
MaxDeltaBody == 4
DeltaBytes == {0, 1, 2, 144, 145}
DeltaBases == {<<7>>, <<7, 8>>}
DeltaPads == {<<>>, <<0>>}
Deltas ==
    {<<baseLen, resultLen>> \o body :
        baseLen \in 1..2, resultLen \in 0..3,
        body \in UNION {[1..m -> DeltaBytes] : m \in 0..MaxDeltaBody}}
DeltaNext ==
    \E base \in (IF dlt.pc = "idle" THEN DeltaBases ELSE {}),
       pad \in DeltaPads, delta \in Deltas : DltApply(base, pad, delta)
SpecDelta == Init /\ [][DeltaNext]_vars

\* The goroutines of Procs (or instances of the application) calling
\* GetRef and UpdateRef of the App Engine repository for one ref
GaeNext ==
    \E p \in Procs :
        \/ GaeCallGetRef(p)
        \/ \E oldID, newID \in {ZeroID} \cup Ids :
               GaeCallUpdateRef(p, oldID, newID)
        \/ GaeBegin(p)
        \/ GaeMemcacheGet(p)
        \/ GaeDatastoreGet(p)
        \/ GaeMemcacheSet(p)
        \/ GaeCompare(p)
        \/ GaeGetObject(p)
        \/ GaeDatastorePut(p)
        \/ GaePutMemcacheSet(p)
        \/ GaeMemcacheDelete(p)
        \/ GaeDatastoreDelete(p)
        \/ GaeCommit(p)
        \/ GaeReturn(p)
SpecGae == Init /\ [][GaeNext]_vars

\* A pkt-line stream written, closed and read
SpecPkt == Init /\ [][PktNext]_vars

\* The goroutines of Procs calling the methods of one in-memory
\* repository.  sync.Mutex hands a lock over to a goroutine that has
\* waited long (starvation mode), and Unlock of a sync.RWMutex admits the
\* readers that wait before the next writer: a goroutine that could take
\* the lock again and again does take it, which is strong fairness of
\* LkAcquire; a goroutine that can run does run
LocksNext ==
    \E p \in Procs :
        \/ \E m \in Methods : LkCall(p, m)
        \/ LkAcquire(p)
        \/ LkRelease(p)
        \/ LkReturn(p)
SpecLocks == Init /\ [][LocksNext]_vars
SpecLocksFair ==
    /\ SpecLocks
    /\ \A p \in Procs :
           /\ SF_vars(LkAcquire(p))
           /\ WF_vars(LkRelease(p))
           /\ WF_vars(LkReturn(p))

\* One goroutine calling PutObject and UpdateRef on the in-memory
\* repository while one ReceivePack task runs up to MaxSharedPushes
\* pushes on it: a push has one command for refs/x and a packfile that
\* fails after its first object, or has a bad footer, or unpacks, or has
\* no packfile
MaxSharedPushes == 2
SharedInputs ==
    {[cmds |-> <<Cmd(RefX, ZeroID, 1)>>, caps |-> {"report-status"},
      pack |-> GoodPack(<<PObj(1, 2), PBad(2)>>)],
     [cmds |-> <<Cmd(RefX, ZeroID, 2)>>, caps |-> {"report-status"},
      pack |-> Pack("PACK", 2, 1, <<PObj(2, 2)>>, "bad")],
     [cmds |-> <<Cmd(RefX, 1, 2)>>, caps |-> {"report-status"},
      pack |-> GoodPack(<<PObj(1, 2)>>)],
     [cmds |-> <<Cmd(RefX, 1, ZeroID)>>, caps |-> {"report-status"},
      pack |-> NoPack]}
SharedUpdates == {<<ZeroID, 2>>, <<1, 2>>, <<2, ZeroID>>}
SharedNext ==
    \/ \E u \in SharedUpdates : CallUpdateRef("p1", RefX, u[1], u[2])
    \/ URLock("p1")
    \/ URCompare("p1")
    \/ URGetObject("p1")
    \/ URSet("p1")
    \/ URUnlock("p1")
    \/ CallPutObject("p1", 2)
    \/ POStore("p1")
    \/ POUnlock("p1")
    \/ Return("p1")
    \/ RecvNext({"t1"}, SharedInputs) /\ rcalls' <= MaxSharedPushes
SpecShared == Init /\ [][SharedNext]_vars

\* Two ReceivePack tasks on one repository, each push carrying one
\* command for refs/x and, in its pack, the object the command names
RacePack(newID) ==
    IF newID = ZeroID THEN NoPack ELSE GoodPack(<<PObj(newID, 2)>>)
RaceInputs ==
    {[cmds |-> <<Cmd(RefX, oldID, newID)>>, caps |-> {"report-status"},
      pack |-> RacePack(newID)] :
        <<oldID, newID>> \in PushIdsOrZero \X PushIdsOrZero}
RaceNext == RecvNext(Tasks, RaceInputs)
SpecRecvRace == Init /\ [][RaceNext]_vars

\* One ReceivePack call at a time: pushes of up to MaxCmds commands that
\* create, change and delete two refs, with or without report-status or a
\* capability ReceivePack does not know, and, unless every command is a
\* deletion, a packfile that decodes, or ends with a bad checksum, or
\* begins with a bad signature
PushCmds ==
    {Cmd(RefX, ZeroID, 1), Cmd(RefX, 1, 2), Cmd(RefX, 1, ZeroID),
     Cmd(RefY, ZeroID, 1), Cmd(RefY, 1, ZeroID)}
RECURSIVE CmdLists(_)
CmdLists(n) ==
    IF n = 0 THEN {<<>>}
    ELSE CmdLists(n - 1) \cup
         {Append(cs, c) : cs \in {x \in CmdLists(n - 1) : Len(x) = n - 1},
                          c \in PushCmds}
PushCaps == {{}, {"report-status"}, {"report-status", "side-band-64k"}}
PushPacks ==
    {GoodPack(<<PObj(1, 2), PObj(2, 3)>>),
     Pack("PACK", 2, 1, <<PObj(1, 2)>>, "bad"),
     Pack("JUNK", 2, 0, <<>>, "cut")}
DeleteOnly(cs) == \A i \in 1..Len(cs) : cs[i].newID = ZeroID
PushInputs ==
    {in \in {[cmds |-> cs, caps |-> caps,
              pack |-> IF DeleteOnly(cs) THEN NoPack ELSE pack] :
                 cs \in CmdLists(MaxCmds) \ {<<>>}, caps \in PushCaps,
                 pack \in PushPacks} :
        in.caps \subseteq Capabilities \/ in.pack.sum = "ok"
        \/ in.pack = NoPack}
    \cup {NoInput}
PushNext == RecvNext({"t1"}, PushInputs)
SpecRecv == Init /\ [][PushNext]_vars

\* One ReceivePack task, each push carrying one command and a packfile
\* out of UnpackPacks: packfiles that decode (whole objects, an ofs-delta,
\* a ref-delta on an object of the pack), a thin pack, and packfiles with
\* a bad delta offset, a body that does not inflate, a bad or missing
\* footer, a wrong object count, a bad signature or version
UnpackPacks ==
    {GoodPack(<<PObj(1, 2)>>),
     GoodPack(<<PObj(1, 2), POfs(2, 3, 2)>>),
     GoodPack(<<PObj(1, 2), POfs(2, 3, 1)>>),
     GoodPack(<<PObj(1, 2), POfs(2, 3, 12)>>),
     GoodPack(<<POfs(2, 3, 0)>>),
     GoodPack(<<PRef(2, 3, 1)>>),
     GoodPack(<<PObj(1, 2), PRef(2, 3, 1)>>),
     GoodPack(<<PRef(2, 3, ZeroID)>>),
     GoodPack(<<PBad(2)>>),
     Pack("PACK", 3, 1, <<PObj(2, 2)>>, "ok"),
     Pack("PACK", 2, 0, <<>>, "ok"),
     Pack("PACK", 2, 1, <<PObj(1, 2)>>, "bad"),
     Pack("PACK", 2, 2, <<PObj(1, 2)>>, "cut"),
     Pack("PACK", 2, 1, <<PObj(1, 2), PObj(2, 3)>>, "ok"),
     Pack("PACK", 4, 1, <<PObj(1, 2)>>, "ok"),
     Pack("JUNK", 2, 1, <<PObj(1, 2)>>, "ok"),
     NoPack}
UnpackCmds ==
    {<<Cmd(RefX, ZeroID, 2)>>, <<Cmd(RefX, ZeroID, 1)>>,
     <<Cmd(RefX, 2, ZeroID)>>, <<>>}
UnpackInputs ==
    {[cmds |-> cs, caps |-> caps, pack |-> pack] :
        cs \in UnpackCmds, caps \in {{}, {"report-status"}},
        pack \in UnpackPacks}
UnpackNext == RecvNext({"t1"}, UnpackInputs)
SpecUnpack == Init /\ [][UnpackNext]_vars

\* One UploadPack call
UploadNext == UpNext(Requests)
SpecUpload == Init /\ [][UploadNext]_vars

\* One UploadPack call on a short request.  Once called, UploadPack runs
\* on until it returns.
UpRun == UpWants \/ UpHaves \/ UpAnswer \/ UpPack
ShortNext == UpNext(ShortRequests)
SpecUploadFair == Init /\ [][ShortNext]_vars /\ WF_vars(UpRun)

\* One call of the earlier UploadPack, and one on a short request
NegotiateNext == NgNext(Requests)
SpecNegotiate == Init /\ [][NegotiateNext]_vars
NgRun == NgWants \/ NgReadLine \/ NgHandle \/ NgPack
NgShortNext == NgNext(ShortRequests)
SpecNegotiateFair == Init /\ [][NgShortNext]_vars /\ WF_vars(NgRun)

(***************************************************************************)
(* Claims about repo.UpdateRef and repo.GetRef                             *)
(***************************************************************************)
\* An UpdateRef call whose outcome is decided and which still holds refsLock
Decided(p) == pc[p] = "ur_unlock" /\ call[p].op = "UpdateRef"

\* C1: UpdateRef(name, oldID, newID) with oldID # 0 and newID # 0 succeeds
\* and sets the ref to newID if and only if the ref equalled oldID and an
\* object newID is stored; a ref holding another non-zero Id gives the
\* mismatch error; every failure leaves the ref map as it was.
C1_UpdateBothNonZero ==
    \A p \in Procs :
        (Decided(p) /\ call[p].oldID # ZeroID /\ call[p].newID # ZeroID) =>
            LET c == call[p]
                cur == Lookup(before[p], c.name)
            IN /\ (ret[p].err = Nil) <=> (cur = c.oldID /\ c.newID \in objects)
               /\ (ret[p].err = Nil) => refs = MapSet(before[p], c.name, c.newID)
               /\ (cur # ZeroID /\ cur # c.oldID) => ret[p].err = ErrRefMismatch
               /\ (ret[p].err # Nil) => refs = before[p]

C1_Witness ==
    \E p \in Procs :
        /\ Decided(p) /\ ret[p].err = Nil
        /\ call[p].oldID # ZeroID /\ call[p].newID # ZeroID
        /\ call[p].newID # call[p].oldID
        /\ refs[call[p].name] = call[p].newID

\* C2: UpdateRef with oldID = 0 succeeds only if the ref does not exist:
\* with newID = 0 it changes nothing, with newID # 0 and the object stored
\* it creates the ref; if the ref exists both forms fail with ErrRefExist
\* and leave the ref map as it was.
C2_UpdateOldZero ==
    \A p \in Procs :
        (Decided(p) /\ call[p].oldID = ZeroID) =>
            LET c == call[p]
                exists == c.name \in DOMAIN before[p]
            IN /\ (ret[p].err = Nil) => ~exists
               /\ (~exists /\ c.newID = ZeroID) =>
                      (ret[p].err = Nil /\ refs = before[p])
               /\ (~exists /\ c.newID # ZeroID /\ c.newID \in objects) =>
                      (ret[p].err = Nil /\ refs = MapSet(before[p], c.name, c.newID))
               /\ exists => (ret[p].err = ErrRefExist /\ refs = before[p])

C2_Witness ==
    \E p \in Procs :
        /\ Decided(p) /\ call[p].oldID = ZeroID
        /\ ret[p].err = ErrRefExist
        /\ call[p].name \in DOMAIN refs

\* C3: UpdateRef with oldID # 0 and newID = 0 removes the ref if and only
\* if the ref equalled oldID; a missing ref gives ErrRefNotExist, a ref
\* holding another Id gives ErrRefMismatch, and both leave the ref map as
\* it was.
C3_UpdateDelete ==
    \A p \in Procs :
        (Decided(p) /\ call[p].oldID # ZeroID /\ call[p].newID = ZeroID) =>
            LET c == call[p]
                cur == Lookup(before[p], c.name)
            IN /\ (ret[p].err = Nil) <=> (cur = c.oldID)
               /\ (ret[p].err = Nil) => refs = MapDelete(before[p], c.name)
               /\ (c.name \in DOMAIN refs) <=>
                      (c.name \in DOMAIN before[p] /\ ret[p].err # Nil)
               /\ (cur = ZeroID) => ret[p].err = ErrRefNotExist
               /\ (cur # ZeroID /\ cur # c.oldID) => ret[p].err = ErrRefMismatch
               /\ (ret[p].err # Nil) => refs = before[p]

C3_Witness ==
    \E p \in Procs :
        /\ Decided(p) /\ call[p].oldID # ZeroID /\ call[p].newID = ZeroID
        /\ ret[p].err = Nil
        /\ call[p].name \in DOMAIN before[p]
        /\ call[p].name \notin DOMAIN refs

\* A step in which an UpdateRef on refname n succeeds, directly after an
\* earlier success on n that named the same oldID and another newID
SecondWinSameOld(n) ==
    /\ tick'[n] # tick[n]
    /\ last[n].won
    /\ last'[n].oldID = last[n].oldID
    /\ last'[n].newID # last[n].newID

\* C4 as stated: two UpdateRef calls on one refname that name the same
\* oldID and different newIDs never both succeed.
C4_NeverBothSucceed ==
    [][\A n \in RefNames : ~SecondWinSameOld(n)]_vars

\* What a GetRef that has read the map, and still holds the read lock, got
GetRefSeesLatest ==
    \A p \in Procs :
        (pc[p] = "gr_runlock") =>
            LET n == call[p].name
            IN /\ ret[p].id = Lookup(refs, n)
               /\ (ret[p].err = Nil) =>
                      (last[n].won /\ last[n].newID = ret[p].id
                       /\ ret[p].id # ZeroID)
               /\ (ret[p].err # Nil) => ret[p].err = ErrRefNotExist

\* C4 as amended: two UpdateRef calls on one refname that name the same
\* oldID and different newIDs succeed one directly after the other only
\* when the first one's newID is that oldID; every change of the ref map is
\* made by the holder of refsLock from its oldID to its newID; and a GetRef
\* that succeeds returns the newID of the latest successful UpdateRef.
C4_CompareAndSet ==
    /\ []GetRefSeesLatest
    /\ [][\A n \in RefNames :
            /\ SecondWinSameOld(n) => last[n].newID = last[n].oldID
            /\ (Lookup(refs', n) # Lookup(refs, n)) =>
                   \E p \in Procs :
                       /\ refsLock.writer = p
                       /\ call[p].name = n
                       /\ call[p].oldID = Lookup(refs, n)
                       /\ call[p].newID = Lookup(refs', n)]_vars

\* Two goroutines raced with the same oldID and different newIDs, both
\* other than oldID: one has won and the other is failing
C4_Witness ==
    \E p \in Procs :
        /\ Decided(p) /\ ret[p].err \in {ErrRefMismatch, ErrRefNotExist}
        /\ last[call[p].name].won
        /\ last[call[p].name].oldID = call[p].oldID
        /\ last[call[p].name].newID # call[p].newID
        /\ last[call[p].name].newID # call[p].oldID
        /\ call[p].newID # call[p].oldID

(***************************************************************************)
(* Claims about the pkt-line Reader and Writer                             *)
(***************************************************************************)
\* Only this Writer wrote to the stream
WriterOnly == \A i \in DOMAIN sent : sent[i].k # "raw"

\* C6: once the Reader has returned a flush-pkt, every further ReadLine
\* returns the flush/end result and consumes no byte of the stream until
\* Next is called.
C6_ParkedReadsNothing ==
    \A i \in DOMAIN rcvd :
        (WriterOnly /\ rcvd[i].parked) =>
            (rcvd[i].used = 0 /\ rcvd[i].err = EOF /\ rcvd[i].s = <<>>)

IsHexDigit(c) == InSeq(hexDigits, c) \/ InSeq(upperHex, c)

\* Four hex digits that encode 0 or a value in 4..65524
ValidPrefix(p) ==
    /\ \A i \in 1..4 : IsHexDigit(p[i])
    /\ LET x == readLineLen(p) + 4
       IN x = 0 \/ (x >= 4 /\ x <= MaxPayloadLen + 4)

\* The errors ReadLine passes on from io.ReadFull are no format errors
IsFormatError(e) == e \notin {Nil, EOF, ErrUnexpectedEOF}

\* C7: the Reader reports a format error for every length prefix that is
\* not four hex digits encoding 0 or a value in 4..65524; such a prefix is
\* read neither as a flush-pkt nor as a line.
C7_BadPrefixIsFormatError ==
    \A i \in DOMAIN rcvd :
        (BLen(rcvd[i].hdr) = 4 /\ ~ValidPrefix(Expand(rcvd[i].hdr))) =>
            (IsFormatError(rcvd[i].err) /\ ~rcvd[i].flush)

Min(a, b) == IF a < b THEN a ELSE b

\* C8: what a Reader reads from the bytes a Writer produced with
\* WriteLine(s), len(s) <= 65520, and Flush is the same sequence of
\* payloads and flush sentinels, and it uses up exactly the bytes written;
\* WriteLine(s) with len(s) > 65520 returns ErrTooLong and writes no byte.
C8_RoundTrip ==
    /\ (wlast.len > MaxPayloadLen) => (wlast.err = ErrTooLong /\ wlast.wrote = 0)
    /\ (wlast.len >= 0 /\ wlast.len <= MaxPayloadLen) =>
           (wlast.err = Nil /\ wlast.wrote = wlast.len + 4)
    /\ WriterOnly =>
           /\ \A i \in 1..Min(Len(rcvd), Len(sent)) :
                  /\ sent[i].k = "line" =>
                         (rcvd[i].err = Nil /\ ~rcvd[i].flush
                          /\ rcvd[i].s = sent[i].s)
                  /\ sent[i].k = "flush" =>
                         (rcvd[i].err = EOF /\ rcvd[i].flush
                          /\ rcvd[i].s = <<>>)
           /\ (phase = "read" /\ Len(rcvd) >= Len(sent)) => wire = <<>>

C8_Witness ==
    /\ phase = "read" /\ WriterOnly
    /\ Len(rcvd) = Len(sent)
    /\ wlast.err = ErrTooLong
    /\ \E i, j \in DOMAIN sent :
           /\ i < j
           /\ sent[i].k = "flush"
           /\ sent[j].k = "line" /\ BLen(sent[j].s) = MaxPayloadLen

(***************************************************************************)
(* Claims about ReceivePack                                                *)
(***************************************************************************)
\* The task reported "ok" for its command
ReportsOk(t) ==
    \E i \in 1..Len(rout[t]) : rout[t][i] = <<"ok", rin[t].cmds[1].name>>

\* Tasks t and u have run concurrently, each with one command for the same
\* ref and the same oldID, which the ref held when each of them began, and
\* with different newIDs, other than oldID, whose objects exist
RacedOnRef(t, u) ==
    /\ t # u
    /\ rpc[t] = "done" /\ rpc[u] = "done"
    /\ rret[t] = Nil /\ rret[u] = Nil
    /\ u \in rsnap[t].with \/ t \in rsnap[u].with
    /\ Len(rin[t].cmds) = 1 /\ Len(rin[u].cmds) = 1
    /\ LET c == rin[t].cmds[1]
           d == rin[u].cmds[1]
       IN /\ c.name = d.name
          /\ c.oldID = d.oldID /\ c.oldID # ZeroID
          /\ Lookup(rsnap[t].refs, c.name) = c.oldID
          /\ Lookup(rsnap[u].refs, d.name) = d.oldID
          /\ c.newID # d.newID
          /\ c.newID \notin {ZeroID, c.oldID} /\ d.newID \notin {ZeroID, d.oldID}
          /\ c.newID \in objects /\ d.newID \in objects

\* C5: of two ReceivePack tasks that run concurrently on one repository,
\* each with one command for the same ref r and the same oldId X, the
\* value of r, and with different existing newIds, at most one reports
\* "ok r".
C5_AtMostOneOk ==
    \A t \in Tasks, u \in Tasks :
        RacedOnRef(t, u) => ~(ReportsOk(t) /\ ReportsOk(u))

(***************************************************************************)
(* Claims about UploadPack                                                 *)
(***************************************************************************)
\* UploadPack has been called on a stream that ends cleanly after its want
\* substream and flush-terminated have substreams, with no done line (and
\* without no-done, which lets the pack follow "ACK ready")
EndsWithoutDone ==
    /\ upc # "idle"
    /\ Len(uin.items) >= 1 /\ uin.items[1].k = "want"
    /\ \A i \in 1..Len(uin.items) : uin.items[i].k # "done"
    /\ ~uin.cut
    /\ "no-done" \notin uin.caps

PackWritten == \E i \in 1..Len(uout) : uout[i].k = "PACK"

\* C9: when the client's stream reaches its end after the want substream
\* and any number of flush-terminated have substreams, with no done line,
\* UploadPack terminates, and it writes no packfile byte.
C9_EndWithoutDoneReturns ==
    /\ [](EndsWithoutDone => <>(upc = "done"))
    /\ [](EndsWithoutDone => ~PackWritten)

\* The response holds the line "ACK h common"
AckedCommon(h) ==
    \E i \in 1..Len(uout) : uout[i] = Line("ACK", h, "common")

\* C10: in multi_ack_detailed mode, every have h read so far whose object
\* is in the repository has its line "ACK h common" and is counted as
\* common, and no line names a have whose object is not in the repository.
C10_EveryHaveAcked ==
    ( /\ "multi_ack_detailed" \in uin.caps
      /\ upc \in {"haves", "pack", "done"}
      /\ uret \in {"pending", Nil}
      /\ Len(uout) < MaxOut )
    => \A h \in useen :
          /\ h \in RepoObjects => AckedCommon(h) /\ h \in SeqToSet(uend)
          /\ h \notin RepoObjects =>
                 \A i \in 1..Len(uout) : uout[i].id # h

(***************************************************************************)
(* UploadPack: the lines of the negotiation and the packfile               *)
(***************************************************************************)
MultiAck == "multi_ack_detailed" \in uin.caps
WantsSent == uin.items # <<>> /\ uin.items[1].k = "want"
NakCount(out) == Cardinality({i \in 1..Len(out) : out[i].k = "NAK"})
AckCount(out) == Cardinality({i \in 1..Len(out) : out[i].k = "ACK"})

\* The last pkt-line UploadPack has read is the done line
DoneRead ==
    /\ upos > 1
    /\ upos - 1 <= Len(uin.items)
    /\ uin.items[upos - 1].k = "done"

\* The flush-pkts read so far that end a have substream
HaveFlushesRead ==
    Cardinality({i \in 2..Len(uin.items) :
                    /\ i < upos
                    /\ uin.items[i].k = "flush"
                    /\ \E j \in 1..(i - 1) : uin.items[j].k = "flush"})

\* C11: in multi_ack_detailed mode the turn of the negotiation loop that
\* answers a have substream ended by a flush-pkt (readHaveLines returned a
\* nil error) writes exactly one NAK line, with or without common objects
C11_OneNakPerFlush ==
    [][( /\ upc = "walk"
         /\ upc' \in {"haves", "pack"}
         /\ MultiAck
         /\ uerr = Nil
         /\ Len(uout') < MaxOut )
       => NakCount(uout') = NakCount(uout) + 1]_vars

C11_Witness ==
    /\ MultiAck
    /\ upc = "haves"
    /\ uend # <<>>
    /\ HaveFlushesRead = 1
    /\ uin.items[upos - 1].k = "flush"
    /\ NakCount(uout) = 1
    /\ \E i \in 1..Len(uout) : uout[i].tag = "common"

LastNegotiationLine ==
    IF uend = <<>> THEN Line("NAK", "", "")
    ELSE Line("ACK", uend[Len(uend)], "")

\* C12: in multi_ack_detailed mode, once done is read the last line of the
\* negotiation is NAK if no common object was found and "ACK id" with the
\* last object added to the common ones otherwise, and the packfile is
\* what follows that line
C12_LastLineAtDone ==
    (MultiAck /\ DoneRead /\ Len(uout) < MaxOut) =>
        /\ upc = "pack" =>
              /\ uout # <<>>
              /\ uout[Len(uout)] = LastNegotiationLine
        /\ (upc = "done" /\ uret = Nil) =>
              /\ Len(uout) >= 2
              /\ uout[Len(uout)].k = "PACK"
              /\ uout[Len(uout) - 1] = LastNegotiationLine

C12_Witness ==
    /\ MultiAck
    /\ DoneRead
    /\ upc = "done"
    /\ uret = Nil
    /\ uend # <<>>
    /\ uout[Len(uout)].k = "PACK"
    /\ uout[Len(uout) - 1] = Line("ACK", uend[Len(uend)], "")

\* The haves read so far that the repository holds, first sent first
CommonHavesRead ==
    SelectSeq([i \in 1..Len(uin.items) |->
                  IF i < upos /\ uin.items[i].k = "have"
                  THEN uin.items[i].id ELSE MissingId],
              LAMBDA id : id \in RepoObjects)

\* C13: without multi_ack_detailed, as long as every line written answers
\* a have substream ended by a flush-pkt, the response holds at most one
\* ACK line, and it names the first have sent that is common
C13_OneAckFirstCommon ==
    (~MultiAck /\ upc # "idle" /\ Len(uout) <= HaveFlushesRead) =>
        /\ AckCount(uout) <= 1
        /\ \A i \in 1..Len(uout) :
              uout[i].k = "ACK" =>
                  /\ CommonHavesRead # <<>>
                  /\ uout[i].id = CommonHavesRead[1]

\* C14: with a capability on the want lines that protocol.Capabilities
\* does not hold, UploadPack writes nothing and returns an error
C14_UnknownCapFails ==
    (upc # "idle" /\ WantsSent /\ ~(uin.caps \subseteq Capabilities)) =>
        /\ uout = <<>>
        /\ upc \in {"wants", "done"}
        /\ upc = "done" => uret \notin {Nil, "pending"}

C14_Witness ==
    /\ WantsSent
    /\ ~(uin.caps \subseteq Capabilities)
    /\ upc = "done"
    /\ uret = ErrCaps
    /\ uout = <<>>

\* The objects reachable from the Ids of ids: the closure under ObjRefs
RECURSIVE ReachFrom(_, _)
ReachFrom(todo, seen) ==
    IF todo = {} THEN seen
    ELSE LET next == UNION {SeqToSet(ObjRefs(id)) : id \in todo}
         IN ReachFrom(next \ seen, seen \cup next)

Reach(ids) == ReachFrom(ids \cap RepoObjects, ids \cap RepoObjects)

\* C16: the packfile holds no object reachable from a common object
C16_PackExcludesCommonClosure ==
    \A i \in 1..Len(uout) :
        uout[i].k = "PACK" =>
            uout[i].objs \cap Reach(SeqToSet(uend)) = {}

\* C17: the packfile holds every object that is reachable from a want and
\* not reachable from a common object
C17_PackCompletesWants ==
    \A i \in 1..Len(uout) :
        uout[i].k = "PACK" =>
            (Reach(SeqToSet(ustart)) \ Reach(SeqToSet(uend)))
                \subseteq uout[i].objs

C17_Witness ==
    /\ uend # <<>>
    /\ \E i \in 1..Len(uout) :
          /\ uout[i].k = "PACK"
          /\ uout[i].objs # {}
          /\ uout[i].objs # Reach(SeqToSet(ustart))

\* The packfile is written once the client, having asked for no-done, is
\* told "ACK id ready" at the end of a have substream
ReadyWithNoDone ==
    /\ MultiAck
    /\ "no-done" \in uin.caps
    /\ uwant = {}
    /\ \E j \in 1..Len(uout) : uout[j].tag = "ready"

UnpackErr(in, objs) ==
    IF DeleteOnly(in.cmds) THEN Nil ELSE unpack(in.pack, objs).err

\* The objects the repository holds after unpack for the push in
Unpacked(in, objs) ==
    IF DeleteOnly(in.cmds) THEN objs ELSE unpack(in.pack, objs).objects

\* The commands cmds applied one after the other to the refs rf with the
\* objects objs: the "ok" and "ng" lines and the refs left
RECURSIVE Replay(_, _, _, _)
Replay(cmds, rf, objs, lines) ==
    IF cmds = <<>> THEN [refs |-> rf, lines |-> lines]
    ELSE LET c == Head(cmds)
             u == UpdateRef(rf, objs, c.name, c.oldID, c.newID)
         IN Replay(Tail(cmds), u.refs, objs,
                   Append(lines, IF u.err = Nil THEN <<"ok", c.name>>
                                 ELSE <<"ng", c.name, u.err>>))

Returned(t) == rpc[t] = "done" /\ rret[t] = Nil

\* C15: when the commands name a capability that protocol.Capabilities
\* does not hold, ReceivePack returns an error, having stored no object,
\* touched no ref and written nothing
C15_UnknownCapAborts ==
    \A t \in Tasks :
        (rpc[t] # "idle" /\ ~(rin[t].caps \subseteq Capabilities)) =>
            /\ rpc[t] \in {"parse", "done"}
            /\ rpc[t] = "done" => rret[t] = ErrCaps
            /\ refs = rsnap[t].refs
            /\ objects = rsnap[t].objects
            /\ rout[t] = <<>>

C15_Witness ==
    \E t \in Tasks :
        /\ rpc[t] = "done"
        /\ rret[t] = ErrCaps
        /\ "report-status" \in rin[t].caps
        /\ ~DeleteOnly(rin[t].cmds)
        /\ rin[t].pack.recs # <<>>
        /\ rsnap[t].refs # <<>>

C20_SilentSameEffect ==
    \A t \in Tasks :
        /\ (rpc[t] # "idle" /\ "report-status" \notin rin[t].caps) =>
               rout[t] = <<>>
        /\ Returned(t) =>
               /\ objects = Unpacked(rin[t], rsnap[t].objects)
               /\ refs = Replay(rin[t].cmds, rsnap[t].refs, objects,
                                <<>>).refs

C20_Witness ==
    \E t \in Tasks :
        /\ Returned(t)
        /\ "report-status" \notin rin[t].caps
        /\ rout[t] = <<>>
        /\ refs # rsnap[t].refs
        /\ objects # rsnap[t].objects

(***************************************************************************)
(* ReceivePack: the packfile of a push                                     *)
(***************************************************************************)
\* The Ids of the objects held by the records of pack before the j-th
IdsBefore(pack, j) == {pack.recs[i].id : i \in 1..(j - 1)}

\* The j-th record of pack holds an object: a whole one, or a delta whose
\* base is there, a repository holding objs when the pack is opened
Decodable(pack, j, objs) ==
    LET rec == pack.recs[j]
    IN \/ rec.kind = "obj"
       \/ /\ rec.kind = "ofs"
          /\ \E i \in 1..(j - 1) :
                 RecStart(pack, i) = RecStart(pack, j) - rec.negOfs
       \/ /\ rec.kind = "ref"
          /\ rec.base # ZeroID
          /\ rec.base \in objs \cup IdsBefore(pack, j)

HeaderValid(pack) == pack.sig = "PACK" /\ pack.version \in {2, 3}

\* The header of pack is valid, every object it declares decodes, and the
\* footer follows the last of them and matches
PackValid(pack, objs) ==
    /\ HeaderValid(pack)
    /\ pack.n = Len(pack.recs)
    /\ \A j \in 1..Len(pack.recs) : Decodable(pack, j, objs)
    /\ pack.sum = "ok"

UnpackLines(t) == {i \in 1..Len(rout[t]) : rout[t][i][1] = "unpack"}

C22_StoreOnlyGrows == [][objects \subseteq objects']_vars

C22_Witness ==
    \E t \in Tasks :
        /\ Returned(t)
        /\ runpack[t] \notin {Nil, ErrChecksum}
        /\ rsnap[t].objects # {}
        /\ rsnap[t].objects \subseteq objects
        /\ objects # rsnap[t].objects
        /\ \E i \in 1..Len(rout[t]) : rout[t][i][1] = "ng"

\* C28: the Reader of unpack consumes bytes of the input only when some
\* command has newID # 0, and then it does unless the input has ended;
\* when every command is a deletion or there is no command the position
\* stays 0, unpack has no error, and a call that reports writes "unpack
\* ok"
C28_PackReadIffNeeded ==
    \A t \in Tasks :
        /\ rdr[t].pos > 0 => ~DeleteOnly(rin[t].cmds)
        /\ (Returned(t) /\ ~DeleteOnly(rin[t].cmds)) =>
               (rdr[t].pos > 0 \/ rin[t].pack.sig = "")
        /\ (Returned(t) /\ DeleteOnly(rin[t].cmds)) =>
               /\ rdr[t].pos = 0
               /\ runpack[t] = Nil
               /\ "report-status" \in rin[t].caps =>
                      rout[t][1] = <<"unpack", "ok">>

C28_Witness ==
    \E t \in Tasks :
        /\ Returned(t)
        /\ rin[t].cmds # <<>>
        /\ DeleteOnly(rin[t].cmds)
        /\ rin[t].pack.recs # <<>>
        /\ rdr[t].pos = 0
        /\ "report-status" \in rin[t].caps
        /\ rout[t][1] = <<"unpack", "ok">>

\* C29: ReadObject on an ofs-delta record that begins at offset pos takes
\* as base the object of the record that begins at pos - negOfs, one of
\* the records decoded before it; when no record begins there it fails
\* with ErrBadOffset and no object is stored
C29_OfsDeltaBase ==
    [][\A t \in Tasks :
          (/\ rpc[t] = "put"
           /\ rdr[t].n > 0
           /\ rk[t] <= Len(rin[t].pack.recs)
           /\ rin[t].pack.recs[rk[t]].kind = "ofs") =>
              LET pack == rin[t].pack
                  rec == pack.recs[rk[t]]
                  at == {i \in 1..(rk[t] - 1) :
                           RecStart(pack, i) =
                               RecStart(pack, rk[t]) - rec.negOfs}
              IN /\ rdr[t].pos = RecStart(pack, rk[t])
                 /\ IF at = {}
                    THEN /\ runpack'[t] = ErrBadOffset
                         /\ rpc'[t] = "line"
                         /\ objects' = objects
                    ELSE /\ \A i \in at : rdr'[t].baseID = pack.recs[i].id
                         /\ rdr'[t].baseID \in objects
                         /\ rpc'[t] = "put"
                         /\ rec.id \in objects']_vars

C29_Witness ==
    \E t \in Tasks :
        /\ rpc[t] = "put"
        /\ rk[t] = 3
        /\ rin[t].pack.recs[2].kind = "ofs"
        /\ rdr[t].baseID = rin[t].pack.recs[1].id
        /\ rdr[t].ofs = (12 :> 1) @@ (14 :> 2)

\* The j-th record of pack is a ref-delta on an object that no record
\* before it holds, and the Reader gets to it
ThinAt(pack, j, objs) ==
    /\ HeaderValid(pack)
    /\ j <= pack.n
    /\ pack.recs[j].kind = "ref"
    /\ pack.recs[j].base # ZeroID
    /\ pack.recs[j].base \notin IdsBefore(pack, j)
    /\ \A i \in 1..(j - 1) : Decodable(pack, i, objs)

C24_PutObjectIdempotent ==
    [][\A p \in Procs :
          (/\ pc[p] = "po_lock"
           /\ pc'[p] = "po_unlock"
           /\ call[p].newID \in objects)
          => /\ objects' = objects
             /\ refs' = refs
             /\ HEAD' = HEAD
             /\ ret'[p] = [err |-> Nil, id |-> call[p].newID]]_vars

\* A second PutObject of a stored object has returned while a ref and a
\* HEAD other than the initial one are in place
C24_Witness ==
    \E p \in Procs :
        /\ pc[p] = "done"
        /\ call[p].op = "PutObject"
        /\ call[p].newID \in objects
        /\ ret[p] = [err |-> Nil, id |-> call[p].newID]
        /\ RefX \in DOMAIN refs
        /\ refs[RefX] = call[p].newID
        /\ HEAD = RefX


\* --------------------------------------------------------------------
\* AdvertiseRefs: the line that carries the capabilities
\* --------------------------------------------------------------------

\* The indices of the lines of out that carry the capability list
CapsLines(out) == {i \in 1..Len(out) : out[i].caps}

\* C26: a ref advertisement carries the capability list on exactly one
\* line, the first one written, which is the HEAD line when HEAD resolved
\* to a ref, else the line of the first listed ref, else (no refs) the
\* zero-Id capabilities^{} line; and the last thing written is a flush-pkt.
C26_CapsOnFirstLine ==
    adv.pc = "done" =>
        /\ Len(adv.out) >= 2
        /\ adv.out[Len(adv.out)] = AdvFlush
        /\ \A i \in 1..(Len(adv.out) - 1) : adv.out[i].k = "ref"
        /\ CapsLines(adv.out) = {1}
        /\ ~adv.out[1].peeled
        /\ IF adv.head.err = Nil
           THEN adv.out[1].name = RefHEAD /\ adv.out[1].id = adv.head.id
           ELSE IF Len(adv.names) > 0
           THEN adv.out[1].name = adv.names[1]
                /\ adv.out[1].id = adv.ids[1]
           ELSE adv.out[1].name = CapsName /\ adv.out[1].id = ZeroID

\* An advertisement of two refs, one of them an annotated tag, written
\* while HEAD named no ref: the capabilities are on the line of the first
\* listed ref
C26_Witness ==
    /\ adv.pc = "done"
    /\ adv.head.err # Nil
    /\ adv.names = <<RefX, RefY>>
    /\ adv.out[1] = AdvLine(adv.ids[1], RefX, TRUE, FALSE)
    /\ \E i \in 2..Len(adv.out) : adv.out[i].peeled
    /\ adv.out[Len(adv.out)] = AdvFlush


\* --------------------------------------------------------------------
\* packfile: the base128 codecs
\* --------------------------------------------------------------------

\* C27: for every 64-bit unsigned x, ReadLE on the bytes WriteLE made of
\* x returns x, ReadMBE on the bytes WriteMBE made of x returns x, both
\* without error and having taken from the reader exactly the bytes
\* written, whatever follows them.
C27_Base128RoundTrip ==
    /\ b128.pc # "idle" =>
           /\ Len(b128.le) \in 1..MaxVarintLen64
           /\ Len(b128.mbe) \in 1..MaxVarintLen64
           /\ \A i \in 1..Len(b128.mbe) : b128.mbe[i] \in 0..255
    /\ b128.pc = "read" =>
           /\ b128.rle = [x |-> b128.x, n |-> Len(b128.le), err |-> Nil]
           /\ b128.rmbe = [x |-> b128.x, n |-> Len(b128.mbe), err |-> Nil]

\* ^uint64(0) has been written in ten bytes by both codecs and read back
C27_Witness ==
    /\ b128.pc = "read"
    /\ b128.x = U64Ones
    /\ Len(b128.le) = MaxVarintLen64
    /\ Len(b128.mbe) = MaxVarintLen64
    /\ b128.rmbe.x = U64Ones
    /\ b128.rle.x = U64Ones


\* --------------------------------------------------------------------
\* object: Marshal and Unmarshal
\* --------------------------------------------------------------------

\* C25: for every valid object of the four kinds, Unmarshal of the data
\* Marshal made of it returns, without error, an object equal to it, and
\* the Id of that object is the Id Marshal returned.
C25_UnmarshalMarshal ==
    /\ codec.pc \notin {"idle", "marshalled"} =>
           codec.back = [err |-> Nil, obj |-> codec.obj]
    /\ codec.pc = "hashed" => codec.id2 = codec.id

\* What holds of the objects that are not trees with entries: they come
\* back equal, with the same Id
C25_ButTreesWithEntries ==
    /\ (/\ codec.pc \notin {"idle", "marshalled"}
        /\ ~(codec.obj.kind = "tree" /\ codec.obj.entries # {})) =>
           codec.back = [err |-> Nil, obj |-> codec.obj]
    /\ codec.pc = "hashed" => codec.id2 = codec.id
    /\ (codec.obj.kind = "tree" /\ codec.obj.entries # {}) =>
           codec.pc \in {"marshalled", "panicked"}


\* --------------------------------------------------------------------
\* packfile: what a Writer wrote, read by a Reader
\* --------------------------------------------------------------------

\* The list has a tree with entries
HasTreeWithEntries(objs) ==
    \E i \in 1..Len(objs) : objs[i].kind = "tree" /\ objs[i].data # <<>>

\* C23: a Reader over the stream a Writer made of a list of objects
\* returns those objects in that order (each being the object written, so
\* hashing to its Id), Len is 0 after the last and Close accepts the
\* footer; when a byte before the footer was altered and the objects
\* still decode, Close returns the checksum error.
C23_PackRoundTrip ==
    /\ pf.pc # "panicked"
    /\ pf.pc \in {"reading", "closed"} =>
           /\ pf.rd.n = pf.nobjects - pf.rd.k
           /\ (~pf.altered /\ pf.rd.err = Nil) =>
                  pf.rd.got = SubSeq(pf.objs, 1, pf.rd.k)
    /\ pf.pc = "closed" =>
           /\ pf.rd.n = 0
           /\ Len(pf.rd.got) = Len(pf.objs)
           /\ pf.closeErr = (IF pf.altered THEN ErrChecksum ELSE Nil)
    /\ (pf.pc = "reading" /\ ~pf.altered) => pf.rd.err = Nil

\* What holds of the lists without a tree with entries: the round trip;
\* and a list with one is never read to its end
C23_ButTreesWithEntries ==
    /\ ~HasTreeWithEntries(pf.objs) =>
           /\ pf.pc # "panicked"
           /\ pf.pc \in {"reading", "closed"} =>
                  /\ pf.rd.n = pf.nobjects - pf.rd.k
                  /\ (~pf.altered /\ pf.rd.err = Nil) =>
                         pf.rd.got = SubSeq(pf.objs, 1, pf.rd.k)
           /\ pf.pc = "closed" =>
                  /\ pf.rd.n = 0
                  /\ Len(pf.rd.got) = Len(pf.objs)
                  /\ pf.closeErr = (IF pf.altered THEN ErrChecksum ELSE Nil)
           /\ (pf.pc = "reading" /\ ~pf.altered) => pf.rd.err = Nil
    /\ HasTreeWithEntries(pf.objs) => pf.pc # "closed"

(***************************************************************************)
(* The packfile Reader after an error                                      *)
(***************************************************************************)
ListedErrs == {ErrBadOffset, ErrObjectNotExist, ErrDelta, ErrDeltaLength}

\* What the i-th ReadObject call of the client left: the count and the
\* position the next call found, or those of the Reader now
LeftLen(i) ==
    IF i < Len(crd.calls) THEN crd.calls[i + 1].n ELSE crd.rd.n
LeftPos(i) ==
    IF i < Len(crd.calls) THEN crd.calls[i + 1].pos
    ELSE IF crd.pc = "closed" /\ crd.err # EOF THEN crd.rd.pos - SumLen
    ELSE crd.rd.pos

\* C31: a ReadObject call that fails with ErrBadOffset, ErrObjectNotExist,
\* ErrDelta or ErrDeltaLength leaves Len one lower than it found it, no
\* entry in r.ofs for the offset the failed record begins at, and the
\* stream at the beginning of the record after the failed one, which is
\* the record the next ReadObject call decodes
C31_ReaderStaysConsistent ==
    \A i \in 1..Len(crd.calls) :
        LET c == crd.calls[i]
        IN c.err \in ListedErrs =>
             /\ LeftLen(i) = c.n - 1
             /\ c.pos \notin DOMAIN crd.rd.ofs
             /\ LeftPos(i) = RecStart(crd.pack, c.k + 1)
             /\ i < Len(crd.calls) => crd.calls[i + 1].k = c.k + 1

\* Each of the four errors has been returned by a call that the next call
\* followed with the object of the next record
C31_Witness ==
    \E i \in 1..(Len(crd.calls) - 1) :
        /\ crd.calls[i].err \in ListedErrs
        /\ crd.calls[i + 1].err = Nil
        /\ crd.calls[i + 1].pos \in DOMAIN crd.rd.ofs
(***************************************************************************)
(* applyDelta: the lengths, the copy ranges and the opcode 0x00            *)
(***************************************************************************)
MaskCount(mask) == Cardinality({i \in 0..7 : MaskBit(mask, i)})

\* The instructions of delta from delta[i] on, as the delta format defines
\* them: where each begins, what it is, and for a copy its offset and
\* length; "cut" stands for an instruction the delta ends in the middle of
RECURSIVE Instrs(_, _)
Instrs(delta, i) ==
    IF i >= Len(delta) THEN <<>>
    ELSE LET opcode == delta[i + 1]
             no == MaskCount(opcode % 16)
             nl == MaskCount((opcode % 128) \div 16)
             cut == <<[op |-> "cut", at |-> i, off |-> 0, len |-> 0]>>
         IN IF opcode < 128
            THEN IF i + 1 + opcode > Len(delta) THEN cut
                 ELSE <<[op |-> "insert", at |-> i, off |-> 0,
                         len |-> opcode]>>
                      \o Instrs(delta, i + 1 + opcode)
            ELSE IF i + 1 + no + nl > Len(delta) THEN cut
            ELSE LET off == uvarintMask(GoSlice(delta, i + 1, Len(delta)),
                                        opcode % 16).x
                     ln == uvarintMask(GoSlice(delta, i + 1 + no, Len(delta)),
                                       (opcode % 128) \div 16).x
                 IN <<[op |-> "copy", at |-> i, off |-> off,
                       len |-> IF ln = 0 THEN 65536 ELSE ln]>>
                    \o Instrs(delta, i + 1 + no + nl)

\* The two lengths a delta declares, and its instructions
DeclaredBaseLen(delta) == base128LE(delta).x
DeclaredResultLen(delta) ==
    base128LE(GoSlice(delta, base128LE(delta).n, Len(delta))).x
InstrsOf(delta) ==
    Instrs(delta, base128LE(delta).n
                  + base128LE(GoSlice(delta, base128LE(delta).n,
                                      Len(delta))).n)

Complete(ins) == \A k \in 1..Len(ins) : ins[k].op # "cut"
RECURSIVE Produced(_)
Produced(ins) ==
    IF ins = <<>> THEN 0 ELSE ins[1].len + Produced(Tail(ins))
CopiesInBase(ins, base) ==
    \A k \in 1..Len(ins) :
        ins[k].op = "copy" => ins[k].off + ins[k].len <= Len(base)

\* C32: applyDelta succeeds only if the declared base length is the length
\* of base and the instructions produce as many bytes as the declared
\* result length; a delta whose instructions (copies within base) produce
\* more or fewer bytes than declared is refused with ErrDelta
C32_DeltaLengthsChecked ==
    dlt.pc = "done" =>
        \E ins \in {InstrsOf(dlt.delta)} :
            /\ dlt.err = Nil =>
                   /\ DeclaredBaseLen(dlt.delta) = Len(dlt.base)
                   /\ Complete(ins)
                   /\ Produced(ins) = DeclaredResultLen(dlt.delta)
            /\ (/\ Complete(ins)
                /\ CopiesInBase(ins, dlt.base)
                /\ Produced(ins) # DeclaredResultLen(dlt.delta))
               => dlt.err = ErrDelta

\* What holds instead: a delta that produces fewer bytes than declared is
\* refused with ErrDelta, and one that produces as many or more succeeds
\* with the first declared-length bytes of what it produces
C32_ButSurplusIsCut ==
    dlt.pc = "done" =>
        \E ins \in {InstrsOf(dlt.delta)} :
            /\ dlt.err = Nil =>
                   /\ DeclaredBaseLen(dlt.delta) = Len(dlt.base)
                   /\ Complete(ins)
                   /\ Produced(ins) >= DeclaredResultLen(dlt.delta)
                   /\ Len(dlt.result) = DeclaredResultLen(dlt.delta)
            /\ (/\ Complete(ins)
                /\ CopiesInBase(ins, dlt.base)
                /\ Produced(ins) < DeclaredResultLen(dlt.delta))
               => dlt.err = ErrDelta
            /\ (/\ Complete(ins)
                /\ CopiesInBase(ins, dlt.base)
                /\ DeclaredBaseLen(dlt.delta) = Len(dlt.base)
                /\ Produced(ins) >= DeclaredResultLen(dlt.delta))
               => dlt.err = Nil

\* C33: a delta with a copy instruction whose range off..off+len ends past
\* the end of base is refused with ErrDelta
C33_CopyPastBaseFails ==
    dlt.pc = "done" =>
        \E ins \in {InstrsOf(dlt.delta)} :
            ~CopiesInBase(ins, dlt.base) => dlt.err = ErrDelta

\* What holds instead, of a delta that declares the length of base: with
\* no spare capacity behind base the slice expression panics and the
\* runtime error is returned; with spare capacity a copy that ends within
\* it is made, of bytes that are not bytes of base
C33_ButRuntimeError ==
    dlt.pc = "done" =>
        \E ins \in {InstrsOf(dlt.delta)} :
            (/\ ~CopiesInBase(ins, dlt.base)
             /\ DeclaredBaseLen(dlt.delta) = Len(dlt.base))
            => /\ dlt.pad = <<>> => dlt.err = ErrSliceBounds
               /\ dlt.err # ErrSliceBounds =>
                      CopiesInBase(ins, dlt.base \o dlt.pad)

\* C34: a delta with the byte 0x00 where an instruction begins is refused
\* with an error
C34_ZeroOpcodeRejected ==
    dlt.pc = "done" =>
        \E ins \in {InstrsOf(dlt.delta)} :
            (\E k \in 1..Len(ins) : ins[k].op = "insert" /\ ins[k].len = 0)
            => dlt.err # Nil

\* What holds instead: the byte 0x00 is an insert of no bytes; a delta
\* gets the result and the error of the delta without those bytes
C34_ButEmptyInsert ==
    dlt.pc = "done" =>
        \E ins \in {InstrsOf(dlt.delta)} :
            (/\ Complete(ins)
             /\ \A k \in 1..Len(ins) : ins[k].op = "insert" /\ ins[k].len = 0)
            => \E o \in {applyDeltaBytes(dlt.base, dlt.pad,
                                         SubSeq(dlt.delta, 1, 2))} :
                   dlt.err = o.err /\ dlt.result = o.result
(***************************************************************************)
(* The records the packfile Writer writes                                  *)
(***************************************************************************)
\* C35: every record the Writer has written carries one of the four
\* object type codes commit, tree, blob and tag: none is a delta
C35_WriterWritesFullObjects ==
    \A i \in 1..Len(pf.recs) : pf.recs[i].type \in PackKinds

\* What holds instead: a record is a ref-delta exactly when an object of
\* the same type was written before it and the delta against the latest
\* such object is shorter than the object's data; no record is an
\* ofs-delta
C35_ButRefDeltas ==
    \A i \in 1..Len(pf.recs) :
        LET obj == pf.objs[i]
            earlier == {j \in 1..(i - 1) : pf.objs[j].kind = obj.kind}
            prev == pf.objs[CHOOSE j \in earlier : \A k \in earlier : k <= j]
        IN /\ pf.recs[i].type \in PackKinds \cup {"refDelta"}
           /\ pf.recs[i].type = "refDelta" <=>
                  /\ earlier # {}
                  /\ DeltaLen(computeDelta(marshalObj(obj), marshalObj(prev)))
                         < DataLen(marshalObj(obj))
(***************************************************************************)
(* ReadMBE on any bytes                                                    *)
(***************************************************************************)
\* Natural numbers of any size as sequences of base-128 digits, the least
\* significant first: n + 1, n*128 + c, and n without its leading zeros
RECURSIVE NatInc(_)
NatInc(n) ==
    IF n = <<>> THEN <<1>>
    ELSE IF n[1] < 127 THEN <<n[1] + 1>> \o Tail(n)
    ELSE <<0>> \o NatInc(Tail(n))
RECURSIVE NatNorm(_)
NatNorm(n) ==
    IF n = <<>> \/ n[Len(n)] # 0 THEN n
    ELSE NatNorm(SubSeq(n, 1, Len(n) - 1))

\* The number that the first k bytes of buf encode in modified big-endian:
\* the first byte's seven bits, then (v + 1)*128 + seven bits a byte
RECURSIVE MBEValue(_, _)
MBEValue(buf, k) ==
    IF k = 1 THEN <<buf[1] % 128>>
    ELSE <<buf[k] % 128>> \o NatInc(MBEValue(buf, k - 1))

\* The bytes of the number buf begins with: up to the first byte with bit
\* 7 clear; 0 when buf ends before
MBEEnd(buf) ==
    LET ks == {k \in 1..Len(buf) : buf[k] < 128}
    IN IF ks = {} THEN 0 ELSE CHOOSE k \in ks : \A h \in ks : k <= h

\* n < 2^64, n < 2^63, and n as a uint64
Below64(n) ==
    \/ Len(NatNorm(n)) < MaxVarintLen64
    \/ Len(NatNorm(n)) = MaxVarintLen64 /\ n[MaxVarintLen64] <= 1
Below63(n) == Len(NatNorm(n)) < MaxVarintLen64
AsU64(n) ==
    [i \in 1..MaxVarintLen64 |-> IF i <= Len(n) THEN n[i] ELSE 0]

\* C36: for every byte sequence that holds a whole number, ReadMBE returns
\* the number the bytes encode when it is below 2^64, and the overflow
\* error when it is not: never a wrapped value (a stream that ends inside
\* the number gives the overflow error or the stream's error); and the
\* packfile Reader accepts the offset of an ofs-delta only when it is
\* below 2^63
C36_ReadMBEExact ==
    b128.pc = "decoded" =>
        \E k \in {MBEEnd(b128.mbe)} :
            IF k = 0
            THEN /\ b128.rmbe.err \in {EOF, ErrMBEOverflow}
                 /\ b128.ofs = b128.rmbe.err
            ELSE \E v \in {MBEValue(b128.mbe, k)} :
                    /\ Below64(v) =>
                           b128.rmbe = [x |-> AsU64(v), n |-> k, err |-> Nil]
                    /\ ~Below64(v) => b128.rmbe.err = ErrMBEOverflow
                    /\ b128.ofs = Nil <=> Below63(v)
                    /\ (Below64(v) /\ ~Below63(v)) =>
                           b128.ofs = ErrOfsOverflow

\* ReadMBE has refused a number of ten bytes that is 2^64 or more, and
\* would be 2^57 - 1 had it wrapped
C36_Witness ==
    /\ b128.pc = "decoded"
    /\ b128.rmbe.err = ErrMBEOverflow
    /\ b128.rmbe.x = MBELimit
    /\ MBEEnd(b128.mbe) = MaxVarintLen64

\* The largest number ReadMBE returns, 2^64 - 1, which the Reader refuses
\* as the offset of an ofs-delta
C36_WitnessMax ==
    /\ b128.pc = "decoded"
    /\ b128.rmbe.err = Nil
    /\ b128.rmbe.x = U64Ones
    /\ b128.ofs = ErrOfsOverflow
(***************************************************************************)
(* The packfile of UploadPack                                              *)
(***************************************************************************)
\* C37: the packfile UploadPack writes holds each Id in one record at
\* most, holds none of the Ids given to Walk as end, and declares in its
\* header as many objects as it has records
C37_PackOfUploadPack ==
    \A i \in 1..Len(uout) :
        uout[i].k = "PACK" =>
            /\ \A a, b \in 1..Len(uout[i].recs) :
                   uout[i].recs[a] = uout[i].recs[b] => a = b
            /\ SeqToSet(uout[i].recs) \cap SeqToSet(uend) = {}
            /\ uout[i].n = Len(uout[i].recs)
            /\ SeqToSet(uout[i].recs) = uout[i].objs

\* A packfile has been written by a call that had an object to end at
\* and two objects to start from, with the commit c2, which Walk came to
\* as a start and as the parent of c3, and the blob b1, which it came to
\* from the trees t2 and t3
C37_Witness ==
    \E i \in 1..Len(uout) :
        /\ uout[i].k = "PACK"
        /\ {"c3", "c2", "t2", "t3", "b1"} \subseteq SeqToSet(uout[i].recs)
        /\ Len(ustart) >= 2
        /\ uend # <<>>
        /\ uout[i].n = Len(uout[i].recs)
(***************************************************************************)
(* The refs of the in-memory repository and its object store               *)
(***************************************************************************)
\* C38: whatever calls of PutObject, UpdateRef and ReceivePack have run
\* or are running, every ref of the map points at an Id that is not zero
\* and whose object is stored
C38_RefsPointAtStoredObjects ==
    \A name \in DOMAIN refs : refs[name] # ZeroID /\ refs[name] \in objects

\* A push whose unpack failed has set refs/x, and UpdateRef of the
\* repository has since moved it to another object
C38_Witness ==
    /\ rpc["t1"] = "done"
    /\ runpack["t1"] \notin {Nil, "pending"}
    /\ rout["t1"] # <<>>
    /\ rout["t1"][Len(rout["t1"]) - 1] = <<"ok", RefX>>
    /\ rin["t1"].cmds[1].newID # ZeroID
    /\ Decided("p1") /\ ret["p1"].err = Nil
    /\ call["p1"].op = "UpdateRef"
    /\ call["p1"].oldID = rin["t1"].cmds[1].newID
    /\ call["p1"].newID \notin {ZeroID, call["p1"].oldID}
    /\ refs[RefX] = call["p1"].newID
(***************************************************************************)
(* The locks of the in-memory repository                                   *)
(***************************************************************************)
\* The locks the goroutine p has taken and not released
Holds(p) ==
    {l \in LockNames : lk.locks[l].writer = p \/ p \in lk.locks[l].readers}

\* The goroutine p is about to take the lock l
Wants(p, l) ==
    /\ LkRunning(p)
    /\ LkAt(p).on = l
    /\ LkAt(p).do \in {"Lock", "Wait", "RLock"}

\* C39: no goroutine takes refsLock while it holds objectsLock (and
\* HEADLock is taken alone), and every call returns
C39_EveryCallReturns ==
    /\ [](\A p \in Procs :
             /\ Wants(p, "refsLock") => Holds(p) \subseteq {"refsLock"}
             /\ Wants(p, "HEADLock") => Holds(p) \subseteq {"HEADLock"})
    /\ \A p \in Procs : (lk.at[p] # 0) ~> (lk.at[p] = 0)

\* UpdateRef holds refsLock and is about to take objectsLock, which a
\* PutObject holds
C39_Witness ==
    \E p, q \in Procs :
        /\ lk.m[p] = "UpdateRef"
        /\ Holds(p) = {"refsLock"}
        /\ Wants(p, "objectsLock")
        /\ lk.m[q] = "PutObject"
        /\ lk.locks["objectsLock"].writer = q
(***************************************************************************)
(* The App Engine backend: memcache and the datastore                      *)
(***************************************************************************)
GaeQuiet == \A p \in Procs : gae.calls[p].pc = "idle"

\* C40: once all calls have returned, the memcache item of the ref
\* is absent or is the value the datastore holds
C40_CacheAgreesWhenQuiet ==
    GaeQuiet => (gae.mc = {} \/ gae.mc = {gae.ds})
====
